---- MODULE Spec2Model ----
(***************************************************************************)
(* A model of the chained interval-remapping engine of src/src/day_05.rs:  *)
(* the overlap classifier (Shr for Range<i64>), the scalar rule (Shr for   *)
(* i64), Almanac::new, Almanac::map_ids and Almanac::map_ranges, driven by *)
(* Day05::solution, and the TryFrom impls that read the input lines.       *)
(***************************************************************************)
EXTENDS Integers, Sequences, FiniteSets, TLC

VARIABLES
    args,           \* the arguments of the pure function under check
    ret,            \* its returned value, once called
    called,         \* whether it has been called
    frame,          \* its local variables, while it runs step by step
    input,          \* the parsed puzzle input: seeds lines and declared stages
    phase,          \* the phase argument of Day05::solution
    pc,             \* where the solution call stands
    almanac,        \* the Almanac built by the current call (a Result)
    mapping_key,    \* map_ids / map_ranges: mapping_key
    id_idx,         \* map_ids: position of the for loop in start_ids
    current_id,     \* map_ids: current_id
    mapped_ids,     \* map_ids: mapped_ids
    mapped_ranges,  \* map_ranges: mapped_ranges (done)
    ranges_to_map,  \* map_ranges: ranges_to_map (pending)
    iter,           \* parity of the iterations the running loop has made
    result          \* the value returned by the call of each phase

fnVars == <<args, ret, called, frame>>
pipeVars == <<input, phase, pc, almanac, mapping_key, id_idx, current_id,
              mapped_ids, mapped_ranges, ranges_to_map, iter, result>>
vars == <<args, ret, called, frame, input, phase, pc, almanac, mapping_key, id_idx,
          current_id, mapped_ids, mapped_ranges, ranges_to_map, iter, result>>

----------------------------------------------------------------------------
(* Bounds of the model *)

\* coordinates of the ranges handed to the classifier lie in 0..MaxCoord
MaxCoord == 4

\* seed values and the dest, src and src + len of a pipeline's rules lie in
\* 0..MaxVal
MaxVal == 2

\* a pipeline declares at most MaxStages stages
MaxStages == 2

\* the domain names of a pipeline
Domains == {"seed", "soil", "fertilizer"}

----------------------------------------------------------------------------
(* Option and Result values *)

None == <<>>
Some(x) == <<x>>
Ok(x) == <<"Ok", x>>
Err(e) == <<"Err", e>>
IsOk(r) == r[1] = "Ok"
IsErr(r) == r[1] = "Err"

----------------------------------------------------------------------------
(* Range<i64> and MappingRange *)

Range(s, e) == [start |-> s, end |-> e]

\* Range::contains: start <= v < end
contains_upto(range, v) == range.start <= v /\ v <= range.end
contains(range, v) == range.start <= v /\ v < range.end

\* the integers of a range
Elems(range) == {v \in range.start .. (range.end - 1) : TRUE}
Length(range) == range.end - range.start

RECURSIVE SumLen(_)
SumLen(rs) == IF rs = <<>> THEN 0 ELSE Length(Head(rs)) + SumLen(Tail(rs))

MappingRange_new_swapped(dest, src, len) ==
    [range |-> Range(dest, dest + len), offset |-> src - dest]
MappingRange_new(dest, src, len) ==
    [range |-> Range(src, src + len), offset |-> dest - src]

\* impl Shr<&MappingRange> for i64
Shr_i64_unshifted(self, rhs) ==
    IF contains(rhs.range, self) THEN Some(self) ELSE None
Shr_i64(self, rhs) ==
    IF contains(rhs.range, self) THEN Some(self + rhs.offset) ELSE None

cmp(a, b) == IF a < b THEN "Less" ELSE IF a = b THEN "Equal" ELSE "Greater"

\* the test for exclusive ranges
exclusive_no_adjust(self, rhs) ==
    \/ self.start < rhs.range.start /\ self.end < rhs.range.start
    \/ self.start > rhs.range.end /\ self.end > rhs.range.end
exclusive(self, rhs) ==
    \/ self.start < rhs.range.start /\ (self.end - 1) < rhs.range.start
    \/ self.start > (rhs.range.end - 1) /\ self.end > rhs.range.end

\* Left overflow
left_overflow_unshifted(self, rhs) ==
    Some(<<Range(rhs.range.start, self.end),
           <<Range(self.start, rhs.range.start)>> >>)
left_overflow_short(self, rhs) ==
    Some(<<Range(rhs.range.start + rhs.offset, self.end + rhs.offset),
           <<Range(self.start, rhs.range.start - 1)>> >>)
left_overflow(self, rhs) ==
    Some(<<Range(rhs.range.start + rhs.offset, self.end + rhs.offset),
           <<Range(self.start, rhs.range.start)>> >>)

\* Right overflow
right_overflow_wide_leftover(self, rhs) ==
    Some(<<Range(self.start + rhs.offset, rhs.range.end + rhs.offset),
           <<Range(rhs.range.end - 1, self.end)>> >>)
right_overflow_whole(self, rhs) ==
    Some(<<Range(self.start + rhs.offset, self.end + rhs.offset),
           <<Range(rhs.range.end, self.end)>> >>)
right_overflow(self, rhs) ==
    Some(<<Range(self.start + rhs.offset, rhs.range.end + rhs.offset),
           <<Range(rhs.range.end, self.end)>> >>)

\* Left & right overflow
both_overflow_drop_right(self, rhs) ==
    Some(<<Range(rhs.range.start + rhs.offset, rhs.range.end + rhs.offset),
           <<Range(self.start, rhs.range.start)>> >>)
both_overflow(self, rhs) ==
    Some(<<Range(rhs.range.start + rhs.offset, rhs.range.end + rhs.offset),
           <<Range(self.start, rhs.range.start),
             Range(rhs.range.end, self.end)>> >>)

\* Full overlap
full_overlap_unshifted_end(self, rhs) ==
    Some(<<Range(self.start + rhs.offset, self.end), <<>> >>)
full_overlap(self, rhs) ==
    Some(<<Range(self.start + rhs.offset, self.end + rhs.offset), <<>> >>)

\* impl Shr<&MappingRange> for Range<i64>
Shr_range(self, rhs) ==
    LET o == <<cmp(self.start, rhs.range.start), cmp(self.end, rhs.range.end)>>
    IN  IF exclusive(self, rhs) THEN None
        ELSE IF o \in {<<"Less", "Less">>, <<"Less", "Equal">>}
            THEN left_overflow(self, rhs)
        ELSE IF o \in {<<"Equal", "Greater">>, <<"Greater", "Greater">>}
            THEN right_overflow(self, rhs)
        ELSE IF o = <<"Less", "Greater">>
            THEN both_overflow(self, rhs)
        ELSE full_overlap(self, rhs)

----------------------------------------------------------------------------
(* The classifier on its own: every query range and rule with start <= end *)

QueryRanges ==
    {Range(s, s + l) : s \in 0..MaxCoord, l \in 0..MaxCoord} \cap
    [start : 0..MaxCoord, end : 0..MaxCoord]

RulesWithin(n) ==
    {MappingRange_new(t[1], t[2], t[3]) :
        t \in {u \in (0..n) \X (0..n) \X (0..n) : u[2] + u[3] <= n}}

PipeIdle ==
    /\ input = [seeds |-> <<<<>>, <<>>>>, maps |-> <<>>]
    /\ phase = 0
    /\ pc = "idle"
    /\ almanac = Err("none")
    /\ mapping_key = ""
    /\ id_idx = 0
    /\ current_id = 0
    /\ mapped_ids = <<>>
    /\ mapped_ranges = <<>>
    /\ ranges_to_map = <<>>
    /\ iter = 0
    /\ result = <<None, None>>

FnIdle ==
    /\ args = <<>>
    /\ ret = None
    /\ called = FALSE
    /\ frame = <<>>

ShrInit ==
    /\ args \in QueryRanges \X RulesWithin(MaxCoord)
    /\ ret = None
    /\ called = FALSE
    /\ frame = <<>>
    /\ PipeIdle

\* self >> rhs
shr ==
    /\ ~called
    /\ ret' = Shr_range(args[1], args[2])
    /\ called' = TRUE
    /\ UNCHANGED <<args, frame, input, phase, pc, almanac, mapping_key, id_idx,
                   current_id, mapped_ids, mapped_ranges, ranges_to_map, iter,
                   result>>

ShrNext == shr

SpecShr == ShrInit /\ [][ShrNext]_vars

----------------------------------------------------------------------------
(* Claims about the classifier, checked under SpecShr *)

ShrSelf == args[1]
ShrRhs == args[2]
ShrFound == ret[1][1]
ShrSplit == ret[1][2]
SeqSet(s) == {s[i] : i \in 1..Len(s)}
Max2(a, b) == IF a >= b THEN a ELSE b
Min2(a, b) == IF a <= b THEN a ELSE b

\* C4: the length of the translated piece plus the lengths of the leftovers
\* equals the length of Q, for every Q and R with start <= end.
C4_LengthPreserved ==
    (called /\ ret # None) =>
        Length(ShrFound) + SumLen(ShrSplit) = Length(ShrSelf)

C4_Witness ==
    /\ called /\ ret # None
    /\ Len(ShrSplit) = 2
    /\ Length(ShrFound) > 0

\* C5: R applied to Q is Disjoint (None) if and only if Q and R share no
\* element, empty ranges included.
C5_DisjointIffNoCommonElement ==
    called => ((ret = None) <=> (Elems(ShrSelf) \cap Elems(ShrRhs.range) = {}))

\* the non-empty sub-ranges of Q that hold no element of R and lie in no
\* larger such sub-range
OutsideRanges(q, r) ==
    {s \in {Range(a, b) : a \in q.start..q.end, b \in q.start..q.end} :
        /\ s.start < s.end
        /\ Elems(s) \cap Elems(r) = {}}
MaximalOutside(q, r) ==
    {s \in OutsideRanges(q, r) :
        \A u \in OutsideRanges(q, r) : Elems(s) \subseteq Elems(u) => u = s}

\* C6: on PartialOverlap the translated piece is Q \cap R shifted by the
\* offset, and the leftovers are exactly the maximal sub-ranges of Q outside
\* R, untranslated: one when Q overflows on a single side, two when on both.
C6_PartialOverlapExact ==
    (called /\ ret # None /\ ShrSplit # <<>>) =>
        /\ ShrFound = Range(Max2(ShrSelf.start, ShrRhs.range.start) + ShrRhs.offset,
                            Min2(ShrSelf.end, ShrRhs.range.end) + ShrRhs.offset)
        /\ Len(ShrSplit) \in {1, 2}
        /\ Len(ShrSplit) = 2 <=>
              (ShrSelf.start < ShrRhs.range.start /\ ShrSelf.end > ShrRhs.range.end)
        /\ SeqSet(ShrSplit) = MaximalOutside(ShrSelf, ShrRhs.range)
        /\ Cardinality(MaximalOutside(ShrSelf, ShrRhs.range)) = Len(ShrSplit)

\* C7: a non-empty Q inside R (Q.start >= R.start, Q.end <= R.end) yields
\* exactly one translated range [Q.start + offset, Q.end + offset) and no
\* leftover.
C7_FullyContained ==
    (/\ called
     /\ ShrSelf.start < ShrSelf.end
     /\ ShrSelf.start >= ShrRhs.range.start
     /\ ShrSelf.end <= ShrRhs.range.end) =>
        /\ ret # None
        /\ ShrFound = Range(ShrSelf.start + ShrRhs.offset, ShrSelf.end + ShrRhs.offset)
        /\ ShrSplit = <<>>

C7_Witness ==
    /\ called
    /\ ShrSelf.start < ShrSelf.end
    /\ ShrSelf.start > ShrRhs.range.start
    /\ ShrSelf.end < ShrRhs.range.end
    /\ ShrRhs.offset # 0
    /\ ret # None

\* C8: no range produced by the classifier, translated piece or leftover,
\* has start = end, zero-length queries and zero-length rules included.
C8_NoEmptyRangeProduced ==
    (called /\ ret # None) =>
        /\ ShrFound.start # ShrFound.end
        /\ \A i \in 1..Len(ShrSplit) : ShrSplit[i].start # ShrSplit[i].end

----------------------------------------------------------------------------
(* Mapping and Almanac *)

Mapping(from, to, ranges) == [from |-> from, to |-> to, ranges |-> ranges]

\* maps.into_iter().map(|mapping| (mapping.from, mapping)).collect():
\* a later mapping replaces an earlier one with the same key
collect_first_wins(maps) ==
    [k \in {maps[i].from : i \in 1..Len(maps)} |->
        maps[CHOOSE i \in 1..Len(maps) :
                /\ maps[i].from = k
                /\ \A j \in 1..(i - 1) : maps[j].from # k]]
collect(maps) ==
    [k \in {maps[i].from : i \in 1..Len(maps)} |->
        maps[CHOOSE i \in 1..Len(maps) :
                /\ maps[i].from = k
                /\ \A j \in (i + 1)..Len(maps) : maps[j].from # k]]

\* Almanac::new
Almanac_new_default(start_ids, maps) ==
    Ok([start_ids |-> start_ids,
        maps |-> collect(maps),
        first_field |-> IF maps = <<>> THEN "" ELSE maps[1].from,
        last_field |-> IF maps = <<>> THEN "" ELSE maps[Len(maps)].to])
Almanac_new(start_ids, maps) ==
    IF maps = <<>>
    THEN Err("Mappings are empty")
    ELSE Ok([start_ids |-> start_ids,
             maps |-> collect(maps),
             first_field |-> maps[1].from,
             last_field |-> maps[Len(maps)].to])

\* Iterator::find_map over the already evaluated closure results
find_map_last(opts) ==
    IF \E i \in 1..Len(opts) : opts[i] # None
    THEN opts[CHOOSE i \in 1..Len(opts) :
                /\ opts[i] # None
                /\ \A j \in (i + 1)..Len(opts) : opts[j] = None]
    ELSE None
find_map(opts) ==
    IF \E i \in 1..Len(opts) : opts[i] # None
    THEN opts[CHOOSE i \in 1..Len(opts) :
                /\ opts[i] # None
                /\ \A j \in 1..(i - 1) : opts[j] = None]
    ELSE None

\* mapping.ranges.iter().find_map(|range| current_id >> range)
find_id(ranges, id) ==
    find_map([i \in 1..Len(ranges) |-> Shr_i64(id, ranges[i])])

\* mapping.ranges.iter().find_map(|range| current_range.clone() >> range)
find_ranges(ranges, current_range) ==
    find_map([i \in 1..Len(ranges) |-> Shr_range(current_range, ranges[i])])

\* start_ids.iter().tuples().map(|(id, len)| *id..(id + len)).collect()
seed_ranges_end_is_len(start_ids) ==
    [i \in 1..(Len(start_ids) \div 2) |->
        Range(start_ids[2 * i - 1], start_ids[2 * i])]
seed_ranges(start_ids) ==
    [i \in 1..(Len(start_ids) \div 2) |->
        Range(start_ids[2 * i - 1], start_ids[2 * i - 1] + start_ids[2 * i])]

\* mapping_key = &mapping.to
next_key_stay(mapping) == mapping.from
next_key(mapping) == mapping.to

\* &self of map_ids and map_ranges
alm == almanac[2]

----------------------------------------------------------------------------
(* Day05::solution, Almanac::map_ids and Almanac::map_ranges *)

Returned(p) == result[p] # None
ReturnedOk(p) == Returned(p) /\ IsOk(result[p])
ReturnedErr(p) == Returned(p) /\ IsErr(result[p])

\* Day05::solution: build the Almanac, then enter the function of the phase
solution ==
    /\ pc = "call"
    /\ LET a == Almanac_new(input.seeds[phase], input.maps)
       IN  /\ almanac' = a
           /\ IF IsErr(a)
              THEN /\ result' = [result EXCEPT ![phase] = a]
                   /\ pc' = "returned"
                   /\ UNCHANGED <<mapping_key, id_idx, current_id, mapped_ids,
                                  mapped_ranges, ranges_to_map>>
              ELSE IF phase = 1
              THEN /\ mapped_ids' = <<>>
                   /\ UNCHANGED <<mapped_ranges, ranges_to_map>>
                   /\ IF a[2].start_ids = <<>>
                      THEN /\ result' = [result EXCEPT ![1] = Ok(<<>>)]
                           /\ pc' = "returned"
                           /\ UNCHANGED <<mapping_key, id_idx, current_id>>
                      ELSE /\ id_idx' = 1
                           /\ mapping_key' = a[2].first_field
                           /\ current_id' = a[2].start_ids[1]
                           /\ pc' = "map_ids"
                           /\ UNCHANGED result
              ELSE /\ mapped_ranges' = <<>>
                   /\ ranges_to_map' = seed_ranges(a[2].start_ids)
                   /\ mapping_key' = a[2].first_field
                   /\ pc' = "map_ranges"
                   /\ UNCHANGED <<id_idx, current_id, mapped_ids, result>>
    /\ iter' = 0
    /\ UNCHANGED <<input, phase, args, ret, called, frame>>

\* map_ids: self.maps.get(mapping_key) is None
map_ids_unknown ==
    /\ pc = "map_ids"
    /\ mapping_key \notin DOMAIN alm.maps
    /\ result' = [result EXCEPT ![1] = Err("Couldn't find the required mapping")]
    /\ pc' = "returned"
    /\ UNCHANGED <<input, phase, almanac, mapping_key, id_idx, current_id,
                   mapped_ids, mapped_ranges, ranges_to_map, iter, args, ret,
                   called, frame>>

\* map_ids: one iteration of the inner loop, and the step of the for loop
\* that follows its break
map_ids_step ==
    /\ pc = "map_ids"
    /\ mapping_key \in DOMAIN alm.maps
    /\ LET mapping == alm.maps[mapping_key]
           found_id == find_id(mapping.ranges, current_id)
           new_id == IF found_id # None THEN found_id[1] ELSE current_id
       IN  IF next_key(mapping) = alm.last_field
           THEN /\ mapped_ids' = Append(mapped_ids, new_id)
                /\ IF id_idx < Len(alm.start_ids)
                   THEN /\ id_idx' = id_idx + 1
                        /\ mapping_key' = alm.first_field
                        /\ current_id' = alm.start_ids[id_idx + 1]
                        /\ UNCHANGED <<pc, result>>
                   ELSE /\ result' = [result EXCEPT ![1] = Ok(mapped_ids')]
                        /\ pc' = "returned"
                        /\ mapping_key' = next_key(mapping)
                        /\ current_id' = new_id
                        /\ UNCHANGED id_idx
           ELSE /\ current_id' = new_id
                /\ mapping_key' = next_key(mapping)
                /\ UNCHANGED <<id_idx, mapped_ids, pc, result>>
    /\ iter' = 1 - iter
    /\ UNCHANGED <<input, phase, almanac, mapped_ranges, ranges_to_map,
                   args, ret, called, frame>>

\* map_ranges: self.maps.get(mapping_key) is None
map_ranges_unknown ==
    /\ pc = "map_ranges"
    /\ mapping_key \notin DOMAIN alm.maps
    /\ result' = [result EXCEPT ![2] = Err("Couldn't find the required mapping")]
    /\ pc' = "returned"
    /\ UNCHANGED <<input, phase, almanac, mapping_key, id_idx, current_id,
                   mapped_ids, mapped_ranges, ranges_to_map, iter, args, ret,
                   called, frame>>

\* map_ranges: ranges_to_map.pop() is None: swap and move on to the next mapping
map_ranges_swap ==
    /\ pc = "map_ranges"
    /\ mapping_key \in DOMAIN alm.maps
    /\ ranges_to_map = <<>>
    /\ ranges_to_map' = mapped_ranges
    /\ mapped_ranges' = ranges_to_map
    /\ mapping_key' = next_key(alm.maps[mapping_key])
    /\ IF mapping_key' = alm.last_field
       THEN /\ result' = [result EXCEPT ![2] = Ok(ranges_to_map')]
            /\ pc' = "returned"
       ELSE UNCHANGED <<pc, result>>
    /\ iter' = 1 - iter
    /\ UNCHANGED <<input, phase, almanac, id_idx, current_id, mapped_ids,
                   args, ret, called, frame>>

\* map_ranges: ranges_to_map.pop() is Some(range): apply the mapping to it
map_ranges_apply ==
    /\ pc = "map_ranges"
    /\ mapping_key \in DOMAIN alm.maps
    /\ ranges_to_map # <<>>
    /\ LET current_range == ranges_to_map[Len(ranges_to_map)]
           popped == SubSeq(ranges_to_map, 1, Len(ranges_to_map) - 1)
           found_ranges == find_ranges(alm.maps[mapping_key].ranges, current_range)
       IN  IF found_ranges # None
           THEN /\ mapped_ranges' = Append(mapped_ranges, found_ranges[1][1])
                /\ ranges_to_map' = popped \o found_ranges[1][2]
           ELSE /\ mapped_ranges' = Append(mapped_ranges, current_range)
                /\ ranges_to_map' = popped
    /\ iter' = 1 - iter
    /\ UNCHANGED <<input, phase, pc, almanac, mapping_key, id_idx, current_id,
                   mapped_ids, result, args, ret, called, frame>>

\* the caller of solution runs phase 2 after phase 1 has returned
next_phase ==
    /\ pc = "returned"
    /\ phase = 1
    /\ phase' = 2
    /\ pc' = "call"
    /\ UNCHANGED <<input, almanac, mapping_key, id_idx, current_id, mapped_ids,
                   mapped_ranges, ranges_to_map, iter, result, args, ret, called, frame>>

Next ==
    \/ solution
    \/ map_ids_unknown
    \/ map_ids_step
    \/ map_ranges_unknown
    \/ map_ranges_swap
    \/ map_ranges_apply
    \/ next_phase

----------------------------------------------------------------------------
(* The inputs of the model *)

\* the sequences over S of length 0..n
SeqsUpTo(S, n) == UNION {[1..k -> S] : k \in 0..n}

\* a seeds line: empty, one value, one (start, length) pair, or two pairs
SeedLists ==
    {<<>>} \cup
    {<<v>> : v \in 0..MaxVal} \cup
    {<<s, l>> : s \in 0..MaxVal, l \in 0..(MaxVal + 1)} \cup
    {<<0, l, s, 1>> : l \in 0..(MaxVal + 1), s \in 0..MaxVal}

\* the seeds lines of the two phases: the same line read twice, or a scalar
\* s for phase 1 and the range (s, 1) for phase 2
SeedLines ==
    {<<s, s>> : s \in SeedLists} \cup
    {<< <<v>>, <<v, 1>> >> : v \in 0..MaxVal}

ChainSeedLines ==
    {<<s, s>> : s \in {<<>>, <<0>>, <<0, 2>>, <<0, 1, 1, 1>>}} \cup
    {<< <<0>>, <<0, 1>> >>}

\* every chain shape: each stage goes from any domain to any domain and has
\* no rule or the rule "1 0 1"
ChainStages ==
    SeqsUpTo({Mapping(f, t, r) : f \in Domains, t \in Domains,
                                 r \in {<<>>, <<MappingRange_new(1, 0, 1)>>}},
             MaxStages)

\* seed-to-soil with every list of at most two rules
RuleStages ==
    {<<Mapping("seed", "soil", r)>> : r \in SeqsUpTo(RulesWithin(MaxVal), 2)}

\* seed-to-soil and soil-to-fertilizer with one rule each
TwoStages ==
    {<<Mapping("seed", "soil", <<r1>>), Mapping("soil", "fertilizer", <<r2>>)>> :
        r1 \in RulesWithin(MaxVal), r2 \in RulesWithin(MaxVal)}

Inputs ==
    [seeds : ChainSeedLines, maps : ChainStages] \cup
    [seeds : SeedLines, maps : RuleStages \cup TwoStages]

\* the inputs of the runs checked under fairness: every chain shape, and
\* seed-to-soil with every list of at most two rules on one seed range
FairInputs ==
    [seeds : ChainSeedLines, maps : ChainStages] \cup
    [seeds : {<<s, s>> : s \in {<<v, l>> : v \in 0..MaxVal, l \in 0..(MaxVal + 1)}},
     maps : RuleStages]

\* solution is about to be called with phase 1 or 2 on one of the inputs
InitWith(inputs) ==
    /\ input \in inputs
    /\ phase \in {1, 2}
    /\ pc = "call"
    /\ almanac = Err("none")
    /\ mapping_key = ""
    /\ id_idx = 0
    /\ current_id = 0
    /\ mapped_ids = <<>>
    /\ mapped_ranges = <<>>
    /\ ranges_to_map = <<>>
    /\ iter = 0
    /\ result = <<None, None>>
    /\ FnIdle

Init == InitWith(Inputs)

Spec == Init /\ [][Next]_vars

FairInit == InitWith(FairInputs)

\* the program is one thread that always takes its next step
FairSpec == FairInit /\ [][Next]_vars /\ WF_vars(Next)

----------------------------------------------------------------------------
(* Claims about the pipeline, checked under Spec and FairSpec *)

\* following to-pointers from key reaches last_field within n stages
RECURSIVE Reaches(_, _, _)
Reaches(a, key, n) ==
    /\ n > 0
    /\ key \in DOMAIN a.maps
    /\ \/ a.maps[key].to = a.last_field
       \/ Reaches(a, a.maps[key].to, n - 1)

\* the to-pointer chain from first_field reaches last_field
ChainReaches(a) == Reaches(a, a.first_field, Cardinality(DOMAIN a.maps))

\* two rules of one stage share an element
OverlappingRules(ranges) ==
    \E i \in 1..Len(ranges), j \in 1..Len(ranges) :
        i # j /\ Elems(ranges[i].range) \cap Elems(ranges[j].range) # {}

\* C1: on a pipeline whose to-pointer chain from first_domain reaches
\* last_domain, with any seed ranges and any rule lists (overlapping rules
\* included), map_ranges terminates: a non-empty pending queue is eventually
\* drained into done, and the loop eventually reaches last_domain and returns.
C1_MapRangesTerminates ==
    /\ (pc = "map_ranges" /\ ChainReaches(alm)) ~> ReturnedOk(2)
    /\ (pc = "map_ranges" /\ ChainReaches(alm) /\ ranges_to_map # <<>>)
          ~> (pc = "map_ranges" /\ ranges_to_map = <<>>)

C1_Witness ==
    /\ ReturnedOk(2)
    /\ ChainReaches(alm)
    /\ \E k \in DOMAIN alm.maps : OverlappingRules(alm.maps[k].ranges)
    /\ Len(result[2][2]) >= 3

\* C2: on a pipeline whose to-pointer chain from first_domain does not reach
\* last_domain (broken, or cycling without passing through last_domain),
\* map_ids and map_ranges both terminate with a lookup error.
C2_BadChainReturnsError ==
    /\ (pc = "map_ids" /\ ~ChainReaches(alm)) ~> ReturnedErr(1)
    /\ (pc = "map_ranges" /\ ~ChainReaches(alm)) ~> ReturnedErr(2)

\* the seeds lines are a scalar s for map_ids and the range (s, 1) for
\* map_ranges
ScalarAndUnitRange ==
    /\ Len(input.seeds[1]) = 1
    /\ input.seeds[2] = <<input.seeds[1][1], 1>>

\* C3: for every pipeline and scalar seed s, the value map_ids returns on
\* seeds [s] is the start of the single fragment map_ranges returns on seeds
\* [s, 1]; map_ranges returns exactly one fragment there.
C3_ScalarMatchesUnitRange ==
    (ScalarAndUnitRange /\ ReturnedOk(1) /\ Returned(2)) =>
        /\ ReturnedOk(2)
        /\ Len(result[1][2]) = 1
        /\ Len(result[2][2]) = 1
        /\ result[2][2][1].start = result[1][2][1]

C3_Witness ==
    /\ ScalarAndUnitRange
    /\ ReturnedOk(1)
    /\ ReturnedOk(2)
    /\ Cardinality(DOMAIN alm.maps) = 2
    /\ alm.first_field # alm.maps[alm.first_field].to
    /\ alm.maps[alm.first_field].to # alm.last_field
    /\ result[1][2][1] # input.seeds[1][1]

\* no integer belongs to two ranges of rs
PairwiseDisjoint(rs) ==
    \A i \in 1..Len(rs), j \in 1..Len(rs) :
        i # j => Elems(rs[i]) \cap Elems(rs[j]) = {}

\* every stage has pairwise non-overlapping rules
NonOverlappingStages(a) ==
    \A k \in DOMAIN a.maps : ~OverlappingRules(a.maps[k].ranges)

\* the value a stage with non-overlapping rules gives v: v + offset of the
\* rule that holds v, or v
Translated(ranges, v) ==
    IF \E i \in 1..Len(ranges) : v \in Elems(ranges[i].range)
    THEN v + ranges[CHOOSE i \in 1..Len(ranges) : v \in Elems(ranges[i].range)].offset
    ELSE v

\* rule images and the values they can collide with lie in 0..(2 * MaxVal)
InjectiveStage(ranges) ==
    \A v \in 0..(2 * MaxVal), w \in 0..(2 * MaxVal) :
        v # w => Translated(ranges, v) # Translated(ranges, w)

InjectiveStages(a) ==
    \A k \in DOMAIN a.maps : InjectiveStage(a.maps[k].ranges)

\* C9 as stated: when map_ranges returns on a pipeline whose stages each have
\* pairwise non-overlapping rules and whose seed ranges are pairwise
\* disjoint, the returned fragments are pairwise non-overlapping.
C9_FragmentsDisjoint ==
    (/\ ReturnedOk(2)
     /\ NonOverlappingStages(alm)
     /\ PairwiseDisjoint(seed_ranges(alm.start_ids))) =>
        PairwiseDisjoint(result[2][2])

\* C9 as amended: the same, for pipelines whose stages moreover translate
\* injectively (no stage gives two different integers the same value).
C9_FragmentsDisjointIfInjective ==
    (/\ ReturnedOk(2)
     /\ NonOverlappingStages(alm)
     /\ InjectiveStages(alm)
     /\ PairwiseDisjoint(seed_ranges(alm.start_ids))) =>
        PairwiseDisjoint(result[2][2])

C9_Witness ==
    /\ ReturnedOk(2)
    /\ NonOverlappingStages(alm)
    /\ InjectiveStages(alm)
    /\ PairwiseDisjoint(seed_ranges(alm.start_ids))
    /\ Len(result[2][2]) >= 2
    /\ \A i \in 1..Len(result[2][2]) : Length(result[2][2][i]) > 0
    /\ \E i \in 1..Len(result[2][2]) :
          \A j \in 1..Len(seed_ranges(alm.start_ids)) :
              Elems(result[2][2][i]) \cap Elems(seed_ranges(alm.start_ids)[j]) = {}

\* C10: at every iteration of the map_ranges loop the lengths of pending and
\* done add up to the total length of the seed ranges, so do the lengths of
\* the returned fragments, and the number of fragments never decreases.
C10_LengthsConserved ==
    /\ [](pc = "map_ranges" =>
            SumLen(ranges_to_map) + SumLen(mapped_ranges)
                = SumLen(seed_ranges(alm.start_ids)))
    /\ [](ReturnedOk(2) =>
            SumLen(result[2][2]) = SumLen(seed_ranges(alm.start_ids)))
    /\ [][pc = "map_ranges" =>
            /\ Len(ranges_to_map') + Len(mapped_ranges')
                  >= Len(ranges_to_map) + Len(mapped_ranges)
            /\ ReturnedOk(2)' => Len(result'[2][2]) >= Len(seed_ranges(alm.start_ids))]_vars

C10_Witness ==
    /\ pc = "map_ranges"
    /\ mapping_key # alm.first_field
    /\ ranges_to_map # <<>>
    /\ mapped_ranges # <<>>
    /\ Len(ranges_to_map) + Len(mapped_ranges) > Len(seed_ranges(alm.start_ids))
    /\ SumLen(mapped_ranges) > 0

----------------------------------------------------------------------------
(* Claims about stage application, checked under Spec *)

\* the position of the first rule in declared order whose half-open source
\* range holds v, 0 when no rule holds v
FirstRule(ranges, v) ==
    IF \E i \in 1..Len(ranges) : ranges[i].range.start <= v /\ v < ranges[i].range.end
    THEN CHOOSE i \in 1..Len(ranges) :
            /\ ranges[i].range.start <= v /\ v < ranges[i].range.end
            /\ \A j \in 1..(i - 1) :
                  ~(ranges[j].range.start <= v /\ v < ranges[j].range.end)
    ELSE 0

\* v + offset of the first rule that holds v, v when none does
StageValue(ranges, v) ==
    IF FirstRule(ranges, v) = 0 THEN v
    ELSE v + ranges[FirstRule(ranges, v)].offset

\* C11: every step of map_ids that applies a stage to the value v gives
\* v + offset of the first rule in declared order whose half-open source
\* range contains v, and v itself when no rule contains v; the result is the
\* next current value, or the value recorded for the seed after the last stage.
C11_ScalarStageFirstMatch ==
    [][(pc = "map_ids" /\ mapping_key \in DOMAIN alm.maps) =>
          IF Len(mapped_ids') > Len(mapped_ids)
          THEN mapped_ids'[Len(mapped_ids')]
                  = StageValue(alm.maps[mapping_key].ranges, current_id)
          ELSE current_id' = StageValue(alm.maps[mapping_key].ranges, current_id)]_vars

\* a value held by two rules of different offsets got the offset of the first
C11_Witness ==
    /\ ReturnedOk(1)
    /\ Len(input.maps) = 1
    /\ Len(input.maps[1].ranges) = 2
    /\ Len(alm.start_ids) = 1
    /\ contains(input.maps[1].ranges[1].range, alm.start_ids[1])
    /\ contains(input.maps[1].ranges[2].range, alm.start_ids[1])
    /\ input.maps[1].ranges[1].offset # input.maps[1].ranges[2].offset
    /\ result[1][2] = <<alm.start_ids[1] + input.maps[1].ranges[1].offset>>

\* the range about to be popped from ranges_to_map
PoppedRange == ranges_to_map[Len(ranges_to_map)]

\* the classifier gives None for q on every rule of the list
DisjointFromAll(ranges, q) ==
    \A i \in 1..Len(ranges) : Shr_range(q, ranges[i]) = None

\* q is non-empty and shares no integer with any rule of the list, all of
\* them non-empty
NoCommonElement(ranges, q) ==
    /\ q.start < q.end
    /\ \A i \in 1..Len(ranges) :
          /\ ranges[i].range.start < ranges[i].range.end
          /\ Elems(q) \cap Elems(ranges[i].range) = {}

\* C12: a fragment that is Disjoint from every rule of the current stage is
\* moved to done with the same start and end, nothing is pushed back to
\* pending, and the stage applied to the moved fragment gives Disjoint again;
\* a non-empty fragment that shares no integer with any of the (non-empty)
\* rules is such a fragment.
C12_IdentityFallback ==
    [][(/\ pc = "map_ranges"
        /\ mapping_key \in DOMAIN alm.maps
        /\ ranges_to_map # <<>>
        /\ \/ DisjointFromAll(alm.maps[mapping_key].ranges, PoppedRange)
           \/ NoCommonElement(alm.maps[mapping_key].ranges, PoppedRange)) =>
          /\ mapped_ranges' = Append(mapped_ranges, PoppedRange)
          /\ ranges_to_map' = SubSeq(ranges_to_map, 1, Len(ranges_to_map) - 1)
          /\ find_ranges(alm.maps[mapping_key].ranges,
                         mapped_ranges'[Len(mapped_ranges')]) = None]_vars

\* the single seed range went to done unchanged past a rule that moves values
C12_Witness ==
    /\ pc = "map_ranges"
    /\ mapping_key = alm.first_field
    /\ Len(seed_ranges(alm.start_ids)) = 1
    /\ Length(seed_ranges(alm.start_ids)[1]) > 1
    /\ ranges_to_map = <<>>
    /\ mapped_ranges = seed_ranges(alm.start_ids)
    /\ alm.maps[mapping_key].ranges # <<>>
    /\ NoCommonElement(alm.maps[mapping_key].ranges, mapped_ranges[1])
    /\ \E i \in 1..Len(alm.maps[mapping_key].ranges) :
          alm.maps[mapping_key].ranges[i].offset # 0

----------------------------------------------------------------------------
(* Claims about the lookup error, checked under FairSpec *)

\* following to-pointers from key meets a domain that keys no stage before
\* any stage's to is last_field
RECURSIVE Breaks(_, _, _)
Breaks(a, key, n) ==
    \/ key \notin DOMAIN a.maps
    \/ /\ n > 0
       /\ a.maps[key].to # a.last_field
       /\ Breaks(a, a.maps[key].to, n - 1)

\* the domain chain from first_field is broken
ChainBroken(a) == Breaks(a, a.first_field, Cardinality(DOMAIN a.maps))

\* C13 as stated: on a pipeline whose domain chain is broken, whatever
\* map_ids and map_ranges return is the lookup error, for every seed list,
\* the empty one included.
C13_BrokenChainAlwaysError ==
    (IsOk(almanac) /\ ChainBroken(alm)) =>
        /\ Returned(1) => ReturnedErr(1)
        /\ Returned(2) => ReturnedErr(2)

\* C13 as amended: on a pipeline whose domain chain is broken, map_ranges
\* returns the lookup error for every seed list, the empty one included, and
\* map_ids returns it for every non-empty seed list; on the empty seed list
\* map_ids looks up no stage and returns the empty sequence.
C13_BrokenChainErrorUnlessNoSeed ==
    /\ []((IsOk(almanac) /\ ChainBroken(alm)) =>
            /\ Returned(2) => ReturnedErr(2)
            /\ Returned(1) =>
                  IF input.seeds[1] = <<>> THEN result[1] = Ok(<<>>)
                  ELSE ReturnedErr(1))
    /\ (pc = "map_ids" /\ ChainBroken(alm)) ~> ReturnedErr(1)
    /\ (pc = "map_ranges" /\ ChainBroken(alm)) ~> ReturnedErr(2)

\* both calls failed on the second lookup, map_ranges with the fragments of
\* the first stage in hand
C13_Witness ==
    /\ IsOk(almanac)
    /\ ChainBroken(alm)
    /\ ReturnedErr(1)
    /\ ReturnedErr(2)
    /\ mapping_key # alm.first_field
    /\ mapping_key \notin DOMAIN alm.maps
    /\ ranges_to_map # <<>>
    /\ ranges_to_map # seed_ranges(alm.start_ids)

----------------------------------------------------------------------------
(* Claims about the results of map_ids, checked under Spec *)

\* the pipeline built from the seeds line of phase p
BuiltFor(p) == Almanac_new(input.seeds[p], input.maps)[2]

\* v taken through the stage keyed by key and the stages that follow it, up
\* to the first stage whose to is last_field (n bounds the stages applied)
RECURSIVE ChainValue(_, _, _, _)
ChainValue(a, key, v, n) ==
    IF n = 0 \/ key \notin DOMAIN a.maps THEN v
    ELSE IF a.maps[key].to = a.last_field
         THEN StageValue(a.maps[key].ranges, v)
         ELSE ChainValue(a, a.maps[key].to,
                         StageValue(a.maps[key].ranges, v), n - 1)

\* the translation of the seed v by the pipeline a
SeedValue(a, v) == ChainValue(a, a.first_field, v, Cardinality(DOMAIN a.maps))

\* C14: when map_ids returns Ok, its result has one value per seed, and the
\* i-th value is the translation of the i-th seed through the chain.
C14_OnePerSeedInOrder ==
    ReturnedOk(1) =>
        /\ Len(result[1][2]) = Len(input.seeds[1])
        /\ \A i \in 1..Len(input.seeds[1]) :
              result[1][2][i] = SeedValue(BuiltFor(1), input.seeds[1][i])

\* four seeds through two stages: some moved, some kept, and the results
\* neither ascending nor descending
C14_Witness ==
    /\ ReturnedOk(1)
    /\ Len(input.maps) = 2
    /\ Len(input.seeds[1]) = 4
    /\ Len(result[1][2]) = 4
    /\ \E i \in 1..4 : result[1][2][i] # input.seeds[1][i]
    /\ \E i \in 1..4 : result[1][2][i] = input.seeds[1][i]
    /\ \E i \in 1..3 : result[1][2][i] > result[1][2][i + 1]
    /\ \E i \in 1..3 : result[1][2][i] < result[1][2][i + 1]

----------------------------------------------------------------------------
(* Claims about the order of rules in map_ranges, checked under Spec *)

\* the rules of the stage map_ranges is applying
StageRules == alm.maps[mapping_key].ranges

\* map_ranges is about to pop a range and apply the stage to it
Applying ==
    /\ pc = "map_ranges"
    /\ mapping_key \in DOMAIN alm.maps
    /\ ranges_to_map # <<>>

\* ranges_to_map without the range about to be popped
RestOfPending == SubSeq(ranges_to_map, 1, Len(ranges_to_map) - 1)

\* the ranges the step pushed back to ranges_to_map
PushedBack == SubSeq(ranges_to_map', Len(ranges_to_map), Len(ranges_to_map'))

\* the piece the step pushed to mapped_ranges
Claimed == mapped_ranges'[Len(mapped_ranges')]

\* the integers of the ranges of a sequence
ElemsOf(rs) == UNION {Elems(rs[i]) : i \in 1..Len(rs)}

\* C15: every step that classifies a fragment pushes one piece to done and
\* leaves the pieces already in done as they are; the piece is a sub-range
\* [a, b) of the fragment translated with the offset of the rule declared
\* first among the rules that hold its integers (so an integer covered by two
\* overlapping rules gets the offset of the earlier one), or the whole
\* fragment when no rule claims it; only the rest of the fragment is pushed
\* back to pending.
C15_FirstMatchClaims ==
    [][Applying =>
          /\ Len(mapped_ranges') = Len(mapped_ranges) + 1
          /\ SubSeq(mapped_ranges', 1, Len(mapped_ranges)) = mapped_ranges
          /\ Len(ranges_to_map') >= Len(RestOfPending)
          /\ SubSeq(ranges_to_map', 1, Len(RestOfPending)) = RestOfPending
          /\ \/ /\ Claimed = PoppedRange
                /\ PushedBack = <<>>
                /\ \A v \in Elems(PoppedRange) : FirstRule(StageRules, v) = 0
             \/ \E k \in 1..Len(StageRules), a, b \in PoppedRange.start..PoppedRange.end :
                   /\ a <= b
                   /\ Claimed = Range(a + StageRules[k].offset, b + StageRules[k].offset)
                   /\ \A v \in a..(b - 1) : FirstRule(StageRules, v) = k
                   /\ ElemsOf(PushedBack) = Elems(PoppedRange) \ (a..(b - 1))
                   /\ SumLen(PushedBack) = Length(PoppedRange) - (b - a)]_vars

\* a seed range went through a stage of two overlapping rules of different
\* offsets declared with the narrower one second: an integer held by both
\* came out with the offset of the first and not with that of the second
C15_Witness ==
    /\ ReturnedOk(2)
    /\ Len(input.maps) = 1
    /\ Len(input.maps[1].ranges) = 2
    /\ Len(seed_ranges(alm.start_ids)) = 1
    /\ Len(result[2][2]) >= 2
    /\ \E v \in Elems(seed_ranges(alm.start_ids)[1]) :
          /\ contains(input.maps[1].ranges[1].range, v)
          /\ contains(input.maps[1].ranges[2].range, v)
          /\ (v + input.maps[1].ranges[1].offset) \in ElemsOf(result[2][2])
          /\ (v + input.maps[1].ranges[2].offset) \notin ElemsOf(result[2][2])


\* the position of the first rule in declared order that claims part of q
\* (the classifier gives Some for it), 0 when no rule does
ClaimingRule(ranges, q) ==
    IF \E i \in 1..Len(ranges) : Shr_range(q, ranges[i]) # None
    THEN CHOOSE i \in 1..Len(ranges) :
            /\ Shr_range(q, ranges[i]) # None
            /\ \A j \in 1..(i - 1) : Shr_range(q, ranges[j]) = None
    ELSE 0

\* C16: when rule number i of the stage claims part of a fragment, each
\* leftover goes back to pending of the same stage, is not empty, and is
\* claimed neither by rule i nor by any rule declared before it (so the rule
\* that claims it, if any, is declared after rule i); the stage changes only
\* when pending is empty, so no leftover reaches the next stage unclassified.
C16_LeftoversGoToLaterRules ==
    [][(pc = "map_ranges" /\ mapping_key \in DOMAIN alm.maps) =>
          /\ ranges_to_map # <<>> =>
                /\ mapping_key' = mapping_key
                /\ pc' = "map_ranges"
                /\ \A n \in 1..Len(PushedBack) :
                      /\ PushedBack[n].start < PushedBack[n].end
                      /\ \A j \in 1..ClaimingRule(StageRules, PoppedRange) :
                            Shr_range(PushedBack[n], StageRules[j]) = None
                      /\ ClaimingRule(StageRules, PushedBack[n]) = 0
                            \/ ClaimingRule(StageRules, PushedBack[n])
                                  > ClaimingRule(StageRules, PoppedRange)
          /\ (mapping_key' # mapping_key \/ pc' # "map_ranges") =>
                ranges_to_map = <<>>]_vars

\* the first rule has claimed part of the seed range, and the leftover now
\* in pending is one the second rule claims
C16_Witness ==
    /\ pc = "map_ranges"
    /\ mapping_key = alm.first_field
    /\ Len(StageRules) = 2
    /\ Len(seed_ranges(alm.start_ids)) = 1
    /\ ClaimingRule(StageRules, seed_ranges(alm.start_ids)[1]) = 1
    /\ Len(mapped_ranges) = 1
    /\ Len(ranges_to_map) = 1
    /\ ranges_to_map[1] # seed_ranges(alm.start_ids)[1]
    /\ ClaimingRule(StageRules, ranges_to_map[1]) = 2
    /\ Elems(ranges_to_map[1]) \cap Elems(StageRules[1].range) = {}

----------------------------------------------------------------------------
(* Claims about the passage of fragments through the stages, under Spec *)

\* the integers a seed or a fragment of the model can hold
Vals == 0..(2 * MaxVal + 1)

\* the number of pairs of a range of rs and an integer of S it holds: the
\* integers of S counted once for each range that holds them
Hits(rs, S) ==
    Cardinality({p \in (1..Len(rs)) \X S : contains(rs[p[1]], p[2])})

\* v taken through the stages from the one keyed by cur up to and including
\* the one keyed by key (n bounds the stages applied)
RECURSIVE Through(_, _, _, _, _)
Through(a, cur, v, key, n) ==
    IF cur \notin DOMAIN a.maps THEN v
    ELSE IF cur = key \/ n = 0 THEN StageValue(a.maps[cur].ranges, v)
    ELSE Through(a, a.maps[cur].to, StageValue(a.maps[cur].ranges, v), key, n - 1)

\* v taken through the stages of the chain up to and including the one keyed
\* by key
ValueThrough(a, v, key) ==
    Through(a, a.first_field, v, key, Cardinality(DOMAIN a.maps))

\* C17: at every iteration of the map_ranges loop on a chain that reaches
\* last_domain, the integers of done together with the integers of pending
\* taken through the current stage are, with their multiplicities, the seed
\* integers taken through the stages up to and including the current one;
\* the swap is made only when pending is empty and leaves done empty, and no
\* other step changes the stage or takes a piece out of done; the returned
\* fragments hold the seed integers taken through every stage of the chain
\* once.
C17_StageByStage ==
    /\ []((pc = "map_ranges" /\ ChainReaches(alm)) =>
            \A stage \in {[x \in Vals |-> StageValue(StageRules, x)]},
               upto \in {[s \in Vals |-> ValueThrough(alm, s, mapping_key)]} :
                \A y \in Vals :
                    Hits(mapped_ranges, {y})
                      + Hits(ranges_to_map, {x \in Vals : stage[x] = y})
                    = Hits(seed_ranges(alm.start_ids),
                           {s \in Vals : upto[s] = y}))
    /\ [][(pc = "map_ranges" /\ mapping_key \in DOMAIN alm.maps) =>
            IF ranges_to_map = <<>>
            THEN /\ ranges_to_map' = mapped_ranges
                 /\ mapped_ranges' = <<>>
                 /\ mapping_key' = alm.maps[mapping_key].to
            ELSE /\ mapping_key' = mapping_key
                 /\ pc' = "map_ranges"
                 /\ Len(mapped_ranges') > Len(mapped_ranges)
                 /\ SubSeq(mapped_ranges', 1, Len(mapped_ranges)) = mapped_ranges]_vars
    /\ [](ReturnedOk(2) =>
            \A whole \in {[s \in Vals |-> SeedValue(alm, s)]} :
                \A y \in Vals :
                    Hits(result[2][2], {y})
                    = Hits(seed_ranges(alm.start_ids),
                           {s \in Vals : whole[s] = y}))

\* in the second stage of a two-stage chain, with fragments in pending and
\* in done, the first stage having moved a fragment and the second too
C17_Witness ==
    /\ pc = "map_ranges"
    /\ ChainReaches(alm)
    /\ mapping_key # alm.first_field
    /\ alm.maps[alm.first_field].to = mapping_key
    /\ ranges_to_map # <<>>
    /\ mapped_ranges # <<>>
    /\ \E x \in ElemsOf(seed_ranges(alm.start_ids)) :
          /\ ValueThrough(alm, x, alm.first_field) # x
          /\ ValueThrough(alm, x, mapping_key)
                # ValueThrough(alm, x, alm.first_field)
          /\ ValueThrough(alm, x, mapping_key) \in ElemsOf(mapped_ranges)

\* every integer of a seed range and of a fragment lies in Vals
AllInVals ==
    /\ IsOk(almanac) => ElemsOf(seed_ranges(alm.start_ids)) \subseteq Vals
    /\ ElemsOf(ranges_to_map) \subseteq Vals
    /\ ElemsOf(mapped_ranges) \subseteq Vals

----------------------------------------------------------------------------
(* The example input of the puzzle, and the runs of solution on it *)

ExampleSeeds == <<79, 14, 55, 13>>

ExampleStages ==
    <<Mapping("seed", "soil",
              <<MappingRange_new(50, 98, 2), MappingRange_new(52, 50, 48)>>),
      Mapping("soil", "fertilizer",
              <<MappingRange_new(0, 15, 37), MappingRange_new(37, 52, 2),
                MappingRange_new(39, 0, 15)>>),
      Mapping("fertilizer", "water",
              <<MappingRange_new(49, 53, 8), MappingRange_new(0, 11, 42),
                MappingRange_new(42, 0, 7), MappingRange_new(57, 7, 4)>>),
      Mapping("water", "light",
              <<MappingRange_new(88, 18, 7), MappingRange_new(18, 25, 70)>>),
      Mapping("light", "temperature",
              <<MappingRange_new(45, 77, 23), MappingRange_new(81, 45, 19),
                MappingRange_new(68, 64, 13)>>),
      Mapping("temperature", "humidity",
              <<MappingRange_new(0, 69, 1), MappingRange_new(1, 0, 69)>>),
      Mapping("humidity", "location",
              <<MappingRange_new(60, 56, 37), MappingRange_new(56, 93, 4)>>)>>

\* the sequence s without its k-th entry
Without(s, k) == SubSeq(s, 1, k - 1) \o SubSeq(s, k + 1, Len(s))

\* the example, and the example with one of its blocks left out
ExampleInputs ==
    {[seeds |-> <<ExampleSeeds, ExampleSeeds>>, maps |-> m] :
        m \in {ExampleStages} \cup
              {Without(ExampleStages, k) : k \in 1..Len(ExampleStages)}}

ExampleInit == InitWith(ExampleInputs)

SpecExample == ExampleInit /\ [][Next]_vars

\* Iterator::min
min(s) ==
    IF s = <<>> THEN None
    ELSE Some(CHOOSE x \in SeqSet(s) : \A y \in SeqSet(s) : x <= y)

\* .iter().map(|range| range.start)
starts(rs) == [i \in 1..Len(rs) |-> rs[i].start]

\* C18: on the example chain of seven stages, map_ids on the seeds
\* 79 14 55 13 returns 82 43 86 35, whose minimum is 35, and map_ranges on
\* the same numbers read as the ranges (79, 14) and (55, 13) returns
\* fragments whose minimum start is 46.
C18_ExampleResults ==
    input.maps = ExampleStages =>
        /\ Returned(1) =>
              /\ result[1] = Ok(<<82, 43, 86, 35>>)
              /\ min(result[1][2]) = Some(35)
        /\ Returned(2) =>
              /\ ReturnedOk(2)
              /\ min(starts(result[2][2])) = Some(46)

\* both phases have returned on the example
C18_Witness ==
    /\ input.maps = ExampleStages
    /\ input.seeds = <<ExampleSeeds, ExampleSeeds>>
    /\ ReturnedOk(1)
    /\ ReturnedOk(2)
    /\ Len(result[2][2]) > 2
    /\ pc = "returned"

----------------------------------------------------------------------------
(* Almanac::try_from: reading the lines of the input.  A line is the
   sequence of its words (what split_whitespace gives for words separated by
   single spaces); the empty line is the empty sequence. *)

\* str::parse::<i64> on the words of the model
str_parse(word) ==
    IF word = "0" THEN Ok(0)
    ELSE IF word = "1" THEN Ok(1)
    ELSE IF word = "+1" THEN Ok(1)
    ELSE IF word = "2" THEN Ok(2)
    ELSE Err("invalid digit found in string")

\* the words of line at the positions of keep, in order
Pick(line, keep) ==
    [j \in 1..Cardinality(keep) |->
        line[CHOOSE i \in keep : Cardinality({k \in keep : k <= i}) = j]]

\* .replace(" map:", "") on the words of a line
without_map(line) ==
    Pick(line, {i \in 1..Len(line) : ~(i > 1 /\ line[i] = "map:")})

\* .replace("seeds: ", "") on the words of a line
without_seeds(line) ==
    Pick(line, {i \in 1..Len(line) : ~(i < Len(line) /\ line[i] = "seeds:")})

\* str::split_once("-to-") on a header of one word
split_once_to(header) ==
    IF header = <<"seed-to-soil">> THEN Some(<<"seed", "soil">>)
    ELSE IF header = <<"soil-to-fertilizer">> THEN Some(<<"soil", "fertilizer">>)
    ELSE IF header = <<"fertilizer-to-seed">> THEN Some(<<"fertilizer", "seed">>)
    ELSE None

\* .map(str::parse::<i64>).collect::<Result<Vec<_>, _>>()
parse_all(words) ==
    IF \E i \in 1..Len(words) : IsErr(str_parse(words[i]))
    THEN Err("invalid digit found in string")
    ELSE Ok([i \in 1..Len(words) |-> str_parse(words[i])[2]])

\* impl TryFrom<String> for MappingRange: collect_tuple takes three items
\* and asks for a fourth; a word that fails to parse among those ends the
\* iteration with its error
MappingRange_try_from(value) ==
    IF \E i \in 1..Len(value) : i <= 4 /\ IsErr(str_parse(value[i]))
    THEN Err("invalid digit found in string")
    ELSE IF Len(value) # 3
    THEN Err("Invalid mapping")
    ELSE Ok(MappingRange_new(str_parse(value[1])[2], str_parse(value[2])[2],
                             str_parse(value[3])[2]))

\* impl TryFrom<Vec<String>> for Mapping
Mapping_try_from(value) ==
    IF value = <<>> THEN Err("Missing Mapping header")
    ELSE IF split_once_to(without_map(value[1])) = None
    THEN Err("Invalid Mapping header")
    ELSE IF \E i \in 2..Len(value) : IsErr(MappingRange_try_from(value[i]))
    THEN Err("Invalid mapping")
    ELSE Ok(Mapping(split_once_to(without_map(value[1]))[1][1],
                    split_once_to(without_map(value[1]))[1][2],
                    [i \in 1..(Len(value) - 1) |->
                        MappingRange_try_from(value[i + 1])[2]]))

\* the position of the first empty line at or after pos, Len + 1 if none
block_end(value, pos) ==
    IF \E q \in pos..Len(value) : value[q] = <<>>
    THEN CHOOSE q \in pos..Len(value) :
            value[q] = <<>> /\ \A p \in pos..(q - 1) : value[p] # <<>>
    ELSE Len(value) + 1

\* the loop of try_from: take_while reads a block and the empty line that
\* ends it; an empty block ends the loop
RECURSIVE read_maps(_, _)
read_maps(value, pos) ==
    LET q == block_end(value, pos)
        mapping == SubSeq(value, pos, q - 1)
    IN  IF mapping = <<>> THEN Ok(<<>>)
        ELSE IF IsErr(Mapping_try_from(mapping)) THEN Mapping_try_from(mapping)
        ELSE IF IsErr(read_maps(value, q + 1)) THEN read_maps(value, q + 1)
        ELSE Ok(<<Mapping_try_from(mapping)[2]>> \o read_maps(value, q + 1)[2])

\* try_from up to the call of Self::new: the seeds and the declared stages
read_almanac(value) ==
    IF value = <<>> THEN Err("Missing Almanac header")
    ELSE IF IsErr(parse_all(without_seeds(value[1])))
    THEN parse_all(without_seeds(value[1]))
    ELSE IF IsErr(read_maps(value, 3)) THEN read_maps(value, 3)
    ELSE Ok([start_ids |-> parse_all(without_seeds(value[1]))[2],
             maps |-> read_maps(value, 3)[2]])

\* impl TryFrom<AocStringIter> for Almanac
Almanac_try_from(value) ==
    IF IsErr(read_almanac(value)) THEN read_almanac(value)
    ELSE Almanac_new(read_almanac(value)[2].start_ids, read_almanac(value)[2].maps)

\* the parsing part of Day05::solution: Almanac::try_from(input)?
try_from ==
    /\ pc = "parse"
    /\ ~called
    /\ called' = TRUE
    /\ ret' = Almanac_try_from(args)
    /\ IF IsErr(read_almanac(args))
       THEN /\ result' = [result EXCEPT ![phase] = read_almanac(args)]
            /\ pc' = "failed"
            /\ UNCHANGED input
       ELSE /\ input' = [seeds |-> <<read_almanac(args)[2].start_ids,
                                     read_almanac(args)[2].start_ids>>,
                         maps |-> read_almanac(args)[2].maps]
            /\ pc' = "call"
            /\ UNCHANGED result
    /\ UNCHANGED <<args, frame, phase, almanac, mapping_key, id_idx, current_id,
                   mapped_ids, mapped_ranges, ranges_to_map, iter>>

\* the lines of the model's inputs
SeedsLines ==
    {<<"seeds:", "0", "2">>, <<"seeds:", "+1", "1">>, <<"seeds:", "0", "x">>,
     <<"0", "2">>, <<"seeds:">>}

HeaderLines ==
    {<<"seed-to-soil", "map:">>, <<"soil-to-fertilizer", "map:">>,
     <<"fertilizer-to-seed", "map:">>, <<"seedsoil", "map:">>}

RuleLines ==
    {<<"1", "0", "1">>, <<"2", "0", "2">>, <<"1", "0">>, <<"1", "0", "1", "2">>,
     <<"1", "x", "1">>, <<"1", "0", "1", "x">>}

\* a block has at most MaxRuleLines rule lines
MaxRuleLines == 1

\* nothing, a header with its rule lines, or a rule line without a header
Blocks ==
    {<<>>, <<<<"1", "0", "1">>>>} \cup
    {<<h>> \o rs : h \in HeaderLines, rs \in SeqsUpTo(RuleLines, MaxRuleLines)}

\* nothing, or a well-formed header alone or with one well-formed rule line
GoodBlocks ==
    {<<>>} \cup
    {<<h>> \o rs :
        h \in {<<"seed-to-soil", "map:">>, <<"soil-to-fertilizer", "map:">>,
                <<"fertilizer-to-seed", "map:">>},
        rs \in {<<>>, <<<<"1", "0", "1">>>>}}

\* two blocks, at least one of them well formed
BlockPairs == (Blocks \X GoodBlocks) \cup (GoodBlocks \X Blocks)

\* no line, a seeds line alone, or a seeds line, a second line (empty or
\* not) and two blocks with a gap between them (nothing, one empty line, or
\* two)
ParseInputs ==
    LET SeparatorLines == {<<>>, <<"x">>}
        Gaps == {<<>>, <<<<>>>>, <<<<>>, <<>>>>}
    IN  {<<>>} \cup {<<s>> : s \in SeedsLines} \cup
        {<<i[1], i[2]>> \o i[3][1] \o i[4] \o i[3][2] :
            i \in SeedsLines \X SeparatorLines \X BlockPairs \X Gaps}

ParseInit ==
    /\ args \in ParseInputs
    /\ ret = None
    /\ called = FALSE
    /\ frame = <<>>
    /\ input = [seeds |-> <<<<>>, <<>>>>, maps |-> <<>>]
    /\ phase \in {1, 2}
    /\ pc = "parse"
    /\ almanac = Err("none")
    /\ mapping_key = ""
    /\ id_idx = 0
    /\ current_id = 0
    /\ mapped_ids = <<>>
    /\ mapped_ranges = <<>>
    /\ ranges_to_map = <<>>
    /\ iter = 0
    /\ result = <<None, None>>

ParseNext ==
    \/ try_from
    \/ Next

SpecParse == ParseInit /\ [][ParseNext]_vars

----------------------------------------------------------------------------
(* Claims about reading the input, checked under SpecParse *)

\* the words that are integers
IntegerWords == {"0", "1", "+1", "2"}

\* the words of the seeds line after its label
SeedNumbers(line) ==
    IF line # <<>> /\ line[1] = "seeds:" THEN Tail(line) ELSE line

\* line i is the first line of a block: a non-empty line after the second
\* line that follows an empty line or is the third line
IsHeaderLine(lines, i) ==
    /\ i >= 3
    /\ lines[i] # <<>>
    /\ i = 3 \/ lines[i - 1] = <<>>

\* line i is a rule line: a non-empty line that follows a non-empty line of
\* its block
IsRuleLine(lines, i) ==
    /\ i >= 4
    /\ lines[i] # <<>>
    /\ lines[i - 1] # <<>>

\* the input holds a non-integer word in the seeds line or in a rule line, a
\* rule line that does not hold exactly three integers, or a block header
\* without "-to-"
Malformed(lines) ==
    \/ /\ lines # <<>>
       /\ \E j \in 1..Len(SeedNumbers(lines[1])) :
             SeedNumbers(lines[1])[j] \notin IntegerWords
    \/ \E i \in 1..Len(lines) :
          /\ IsRuleLine(lines, i)
          /\ \/ Len(lines[i]) # 3
             \/ \E j \in 1..Len(lines[i]) : lines[i][j] \notin IntegerWords
    \/ \E i \in 1..Len(lines) :
          /\ IsHeaderLine(lines, i)
          /\ \A j \in 1..Len(lines[i]) :
                lines[i][j] \notin {"seed-to-soil", "soil-to-fertilizer",
                                    "fertilizer-to-seed"}

\* C19: for every input that is malformed in one of these ways, the
\* construction of the pipeline returns an error value, and neither map_ids
\* nor map_ranges is run.
C19_MalformedInputFails ==
    (called /\ Malformed(args)) =>
        /\ IsErr(ret)
        /\ pc \notin {"map_ids", "map_ranges"}
        /\ ~ReturnedOk(1)
        /\ ~ReturnedOk(2)

----------------------------------------------------------------------------
(* Claims about a pipeline without stages, checked under Spec *)

\* C20: when the input declares no stage, the call of either phase ends with
\* an error value whatever the seeds are: neither map_ids nor map_ranges is
\* entered and no result sequence is returned.
C20_NoStagesIsError ==
    input.maps = <<>> =>
        /\ pc \notin {"map_ids", "map_ranges"}
        /\ pc = "returned" => ReturnedErr(phase)
        /\ Returned(1) => ReturnedErr(1)
        /\ Returned(2) => ReturnedErr(2)
        /\ mapped_ids = <<>> /\ mapped_ranges = <<>> /\ ranges_to_map = <<>>

\* both phases have returned the error on seeds that are not empty
C20_Witness ==
    /\ input.maps = <<>>
    /\ input.seeds[1] # <<>>
    /\ Len(input.seeds[2]) >= 2
    /\ ReturnedErr(1)
    /\ ReturnedErr(2)
    /\ almanac = Err("Mappings are empty")

----------------------------------------------------------------------------
(* Seeds lines of every length, and the runs of solution on them *)

\* a seeds line holds at most MaxSeeds values
MaxSeeds == 5

\* one stage with a rule, two stages, and a chain broken after its first stage
SeedStages ==
    {<<Mapping("seed", "soil", <<MappingRange_new(1, 0, 1)>>)>>,
     <<Mapping("seed", "soil", <<MappingRange_new(2, 0, 2)>>),
       Mapping("soil", "fertilizer", <<>>)>>,
     <<Mapping("seed", "soil", <<>>), Mapping("fertilizer", "seed", <<>>)>>}

\* every seeds line of at most MaxSeeds values, read by both phases
SeedInputs ==
    [seeds : {<<s, s>> : s \in SeqsUpTo(0..MaxVal, MaxSeeds)}, maps : SeedStages]

SeedsInit == InitWith(SeedInputs)

SpecSeeds == SeedsInit /\ [][Next]_vars

\* C21: the call of phase 2 on a seed list of n values enters map_ranges
\* with done empty and a pending queue of k ranges, k the integer with
\* 2k <= n < 2k + 2; the i-th range is [start, start + length) for the values
\* start and length at positions 2i - 1 and 2i of the list; no error is
\* returned at that step, whether n is even or odd.
C21_SeedPairsBecomeRanges ==
    [][(pc = "call" /\ phase = 2 /\ input.maps # <<>>) =>
          /\ pc' = "map_ranges"
          /\ result' = result
          /\ mapped_ranges' = <<>>
          /\ 2 * Len(ranges_to_map') <= Len(input.seeds[2])
          /\ Len(input.seeds[2]) < 2 * Len(ranges_to_map') + 2
          /\ \A i \in 1..Len(ranges_to_map') :
                /\ ranges_to_map'[i].start = input.seeds[2][2 * i - 1]
                /\ ranges_to_map'[i].end
                      = input.seeds[2][2 * i - 1] + input.seeds[2][2 * i]]_vars

\* map_ranges has been entered on a list of five values with two ranges of
\* different starts and lengths, the fifth value left out
C21_Witness ==
    /\ pc = "map_ranges"
    /\ iter = 0
    /\ Len(input.seeds[2]) = 5
    /\ Len(ranges_to_map) = 2
    /\ ranges_to_map[1].start # ranges_to_map[2].start
    /\ Length(ranges_to_map[1]) # Length(ranges_to_map[2])
    /\ Length(ranges_to_map[1]) > 0
    /\ input.seeds[2][5] \notin {ranges_to_map[2].start, ranges_to_map[2].end}

----------------------------------------------------------------------------
(* src/src/day_08.rs: Lcm::prime_factors and LcmMany::lcm on usize.  The
   model gives usize UsizeBits bits. *)

UsizeBits == 9
UsizeMax == 2^UsizeBits - 1

\* what a call ends with: a returned value, or a panic
Return(v) == <<"Return", v>>
Panic(m) == <<"Panic", m>>
IsReturn(r) == r # None /\ r[1] = "Return"

\* the numbers of a collection lie in 0..MaxNum, at most MaxNums of them
MaxNum == 12
MaxNums == 3

\* once(2).chain((3..).step_by(2)): the factor that follows factor
next_factor(factor) == IF factor = 2 THEN 3 ELSE factor + 2

\* HashMap::new()
EmptyMap == [k \in {} |-> 0]

\* factors.entry(factor).and_modify(|power| *power *= factor).or_insert(factor)
entry_mul(factors, factor) ==
    IF factor \in DOMAIN factors
    THEN [factors EXCEPT ![factor] = @ * factor]
    ELSE [k \in DOMAIN factors \cup {factor} |->
            IF k = factor THEN factor ELSE factors[k]]

\* the fold of lcm over the entries of one prime_factors map:
\* acc.entry(factor).and_modify(|max_power| *max_power = power.max(*max_power))
\*    .or_insert(power)
fold_max(acc, factors) ==
    [k \in DOMAIN acc \cup DOMAIN factors |->
        IF k \notin DOMAIN acc THEN factors[k]
        ELSE IF k \notin DOMAIN factors THEN acc[k]
        ELSE IF factors[k] >= acc[k] THEN factors[k] ELSE acc[k]]

\* Iterator::product over the values of a map, without regard to the width
\* of usize (the order of a HashMap's values does not change a product)
RECURSIVE product(_)
product(m) ==
    IF DOMAIN m = {} THEN 1
    ELSE LET k == CHOOSE x \in DOMAIN m : \A y \in DOMAIN m : x <= y
         IN  m[k] * product([x \in DOMAIN m \ {k} |-> m[x]])

\* highest_power_factors.values().product() on usize: the values are at
\* least 2, so a partial product exceeds usize exactly when the whole one
\* does; a build with overflow checks panics there, a build without wraps
product_usize(m) ==
    IF product(m) <= UsizeMax THEN {Return(product(m))}
    ELSE {Panic("attempt to multiply with overflow"),
          Return(product(m) % (UsizeMax + 1))}

\* the collections handed to lcm: every one of at most MaxNums numbers in
\* 0..MaxNum, and the one of the test phase_2::lcm
LcmInputs == SeqsUpTo(0..MaxNum, MaxNums) \cup {<<8, 9, 21>>}

LcmInit ==
    /\ args \in LcmInputs
    /\ ret = None
    /\ called = FALSE
    /\ frame = <<>>
    /\ PipeIdle

\* the frame of lcm when prime_factors is entered for the i-th number
factoring(i, acc) ==
    [i |-> i, number |-> args[i], factor |-> 2, factors |-> EmptyMap, acc |-> acc]

\* lcm is called: the fold starts on the first number; product of no value is 1
lcm_call ==
    /\ ~called
    /\ frame = <<>>
    /\ IF args = <<>>
       THEN /\ ret' = Return(1)
            /\ called' = TRUE
            /\ UNCHANGED frame
       ELSE /\ frame' = factoring(1, EmptyMap)
            /\ UNCHANGED <<ret, called>>
    /\ UNCHANGED <<args, pipeVars>>

\* prime_factors: assert_ne!(self, &0usize)
prime_factors_zero ==
    /\ ~called
    /\ frame # <<>>
    /\ frame.number = 0
    /\ ret' = Panic("assertion left != right failed")
    /\ called' = TRUE
    /\ frame' = <<>>
    /\ UNCHANGED <<args, pipeVars>>

\* prime_factors: one iteration of the while loop
prime_factors_divide ==
    /\ ~called
    /\ frame # <<>>
    /\ frame.number # 0
    /\ frame.number % frame.factor = 0
    /\ frame' = [frame EXCEPT !.factors = entry_mul(@, frame.factor),
                              !.number = @ \div frame.factor]
    /\ UNCHANGED <<args, ret, called, pipeVars>>

\* prime_factors: the while loop is over and number is not 1: next factor
prime_factors_next ==
    /\ ~called
    /\ frame # <<>>
    /\ frame.number # 0
    /\ frame.number % frame.factor # 0
    /\ frame.number # 1
    /\ frame' = [frame EXCEPT !.factor = next_factor(@)]
    /\ UNCHANGED <<args, ret, called, pipeVars>>

\* prime_factors breaks and returns its map, which lcm folds into acc; after
\* the last number lcm returns the product of the values of acc
prime_factors_break ==
    /\ ~called
    /\ frame # <<>>
    /\ frame.number # 0
    /\ frame.number % frame.factor # 0
    /\ frame.number = 1
    /\ IF frame.i < Len(args)
       THEN /\ frame' = factoring(frame.i + 1, fold_max(frame.acc, frame.factors))
            /\ UNCHANGED <<ret, called>>
       ELSE /\ ret' \in product_usize(fold_max(frame.acc, frame.factors))
            /\ called' = TRUE
            /\ frame' = <<>>
    /\ UNCHANGED <<args, pipeVars>>

LcmNext ==
    \/ lcm_call
    \/ prime_factors_zero
    \/ prime_factors_divide
    \/ prime_factors_next
    \/ prime_factors_break

SpecLcm == LcmInit /\ [][LcmNext]_vars

\* the thread that runs lcm always takes its next step
FairSpecLcm == LcmInit /\ [][LcmNext]_vars /\ WF_vars(LcmNext)

----------------------------------------------------------------------------
(* Claims about lcm, checked under SpecLcm *)

\* the collection is not empty and its numbers are positive
PositiveNumbers(ns) == ns # <<>> /\ \A i \in 1..Len(ns) : ns[i] > 0

\* m is the least positive integer that every number of ns divides
IsLeastCommonMultiple(m, ns) ==
    /\ m > 0
    /\ \A i \in 1..Len(ns) : m % ns[i] = 0
    /\ \A k \in 1..(m - 1) : \E i \in 1..Len(ns) : k % ns[i] # 0

\* C22: whatever lcm ends with on a non-empty collection of positive
\* integers is a returned value, and that value is their least common
\* multiple; on 8, 9, 21 it is 504.
C22_LcmIsLeastCommonMultiple ==
    (called /\ PositiveNumbers(args)) =>
        /\ IsReturn(ret)
        /\ IsLeastCommonMultiple(ret[2], args)
        /\ args = <<8, 9, 21>> => ret = Return(504)

\* lcm ends on every collection: the loop of prime_factors ends for every
\* number it is given
Lcm_Terminates == <>called

\* whenever the least common multiple fits in usize, lcm returns it
Lcm_ExactWhenItFits ==
    (called /\ PositiveNumbers(args)
        /\ \E m \in 1..UsizeMax : IsLeastCommonMultiple(m, args)) =>
        /\ IsReturn(ret)
        /\ IsLeastCommonMultiple(ret[2], args)

----------------------------------------------------------------------------
(* src/src/day_08.rs: Map::follow_many.  A node name is the sequence of its
   characters; args holds the nodes of the map and the instructions that
   parse_path repeats with cycle(). *)

\* str::ends_with(char)
ends_with(name, char) == name # <<>> /\ name[Len(name)] = char

\* the arguments of the call in Day08::solution: follow_many(path, 'A', 'Z')
start_char == "A"
target_char == "Z"

\* the instructions of a path number at most MaxPath
MaxPath == 2

\* match step { Left => &directions.0, Right => &directions.1 }
direction(directions, step) ==
    IF step = "Left" THEN directions[1] ELSE directions[2]

\* instructions.into_iter().cycle(): the item that follows n items taken
cycle_first_only(instructions, n) == instructions[1]
cycle(instructions, n) == instructions[(n % Len(instructions)) + 1]

\* the orders in which a HashMap can list the keys of S
KeyOrders(S) ==
    {s \in [1..Cardinality(S) -> S] :
        \A i \in 1..Cardinality(S), j \in 1..Cardinality(S) : s[i] = s[j] => i = j}

\* the nodes of the model's maps: two start nodes, a node that is neither
\* start nor target, a target, and a name that is no node of the map
\* (AA, BA, XX, ZZ, QQ); they are the maps of nodes AA and XX, and of nodes
\* AA, BA and XX, with every pair of directions
SmallMaps ==
    LET NodeAA == <<"A", "A">>
        NodeBA == <<"B", "A">>
        NodeXX == <<"X", "X">>
        NodeZZ == <<"Z", "Z">>
        NodeQQ == <<"Q", "Q">>
        DirectionsOf(S) == S \X S
    IN  {[k \in {NodeAA, NodeXX} |-> IF k = NodeAA THEN a ELSE x] :
            a \in DirectionsOf({NodeAA, NodeXX, NodeZZ, NodeQQ}),
            x \in DirectionsOf({NodeAA, NodeXX, NodeZZ, NodeQQ})} \cup
        {[k \in {NodeAA, NodeBA, NodeXX} |->
            IF k = NodeAA THEN a ELSE IF k = NodeBA THEN b ELSE x] :
            a \in DirectionsOf({NodeAA, NodeXX, NodeZZ, NodeQQ}),
            b \in DirectionsOf({NodeXX, NodeZZ}),
            x \in DirectionsOf({NodeAA, NodeXX, NodeZZ, NodeQQ})}

\* the paths of 1..MaxPath instructions
Paths == SeqsUpTo({"Left", "Right"}, MaxPath) \ {<<>>}

\* the map and the path of the test phase_2::phase_specific_example
Node(a, b, c) == <<a, b, c>>
ExampleNodes ==
    [k \in {Node("1", "1", "A"), Node("1", "1", "B"), Node("1", "1", "Z"),
            Node("2", "2", "A"), Node("2", "2", "B"), Node("2", "2", "C"),
            Node("2", "2", "Z"), Node("X", "X", "X")} |->
        IF k = Node("1", "1", "A")
            THEN <<Node("1", "1", "B"), Node("X", "X", "X")>>
        ELSE IF k = Node("1", "1", "B")
            THEN <<Node("X", "X", "X"), Node("1", "1", "Z")>>
        ELSE IF k = Node("1", "1", "Z")
            THEN <<Node("1", "1", "B"), Node("X", "X", "X")>>
        ELSE IF k = Node("2", "2", "A")
            THEN <<Node("2", "2", "B"), Node("X", "X", "X")>>
        ELSE IF k = Node("2", "2", "B")
            THEN <<Node("2", "2", "C"), Node("2", "2", "C")>>
        ELSE IF k = Node("2", "2", "C")
            THEN <<Node("2", "2", "Z"), Node("2", "2", "Z")>>
        ELSE IF k = Node("2", "2", "Z")
            THEN <<Node("2", "2", "B"), Node("2", "2", "B")>>
        ELSE <<Node("X", "X", "X"), Node("X", "X", "X")>>]

\* the small maps with every path, and the example with its path "LR"
FollowInputs ==
    [nodes : SmallMaps, path : Paths] \cup
    {[nodes |-> ExampleNodes, path |-> <<"Left", "Right">>]}

\* no walker of the model takes more steps than this before it lands on a
\* target or is back on a node at an instruction it has been on
MaxSteps == 8 * MaxPath + 1

FollowInit ==
    /\ args \in FollowInputs
    /\ ret = None
    /\ called = FALSE
    /\ frame = <<>>
    /\ PipeIdle

\* follow_many is entered: current_nodes are the keys that end with
\* start_char, in the order the HashMap lists them
follow_many_call ==
    /\ ~called
    /\ frame = <<>>
    /\ \E order \in KeyOrders({k \in DOMAIN args.nodes : ends_with(k, start_char)}) :
          frame' = [at |-> "outer", current_nodes |-> order, next_nodes |-> <<>>,
                    cycles |-> <<>>, steps |-> 0, step |-> "Left"]
    /\ UNCHANGED <<args, ret, called, pipeVars>>

\* the outer loop ends: Some(cycles)
follow_many_return ==
    /\ ~called
    /\ frame # <<>>
    /\ frame.at = "outer"
    /\ frame.current_nodes = <<>>
    /\ ret' = Some(frame.cycles)
    /\ called' = TRUE
    /\ UNCHANGED <<args, frame, pipeVars>>

\* the outer loop goes on: steps += 1; let step = path.0.next()?
follow_many_step ==
    /\ ~called
    /\ frame # <<>>
    /\ frame.at = "outer"
    /\ frame.current_nodes # <<>>
    /\ frame.steps < MaxSteps
    /\ frame' = [frame EXCEPT !.at = "inner",
                              !.steps = @ + 1,
                              !.step = cycle(args.path, frame.steps)]
    /\ UNCHANGED <<args, ret, called, pipeVars>>

\* the inner loop: a node is popped and its walker moves
follow_many_move ==
    /\ ~called
    /\ frame # <<>>
    /\ frame.at = "inner"
    /\ frame.current_nodes # <<>>
    /\ LET current_node == frame.current_nodes[Len(frame.current_nodes)]
           popped == SubSeq(frame.current_nodes, 1, Len(frame.current_nodes) - 1)
       IN  /\ current_node \in DOMAIN args.nodes
           /\ LET next_node == direction(args.nodes[current_node], frame.step)
              IN  IF ends_with(next_node, target_char)
                  THEN frame' = [frame EXCEPT !.current_nodes = popped,
                                              !.cycles = Append(@, frame.steps)]
                  ELSE frame' = [frame EXCEPT !.current_nodes = popped,
                                              !.next_nodes = Append(@, next_node)]
    /\ UNCHANGED <<args, ret, called, pipeVars>>

\* the inner loop: self.nodes.get(current_node)? is None
follow_many_missing ==
    /\ ~called
    /\ frame # <<>>
    /\ frame.at = "inner"
    /\ frame.current_nodes # <<>>
    /\ frame.current_nodes[Len(frame.current_nodes)] \notin DOMAIN args.nodes
    /\ ret' = None
    /\ called' = TRUE
    /\ UNCHANGED <<args, frame, pipeVars>>

\* the inner loop ends: std::mem::swap(&mut next_nodes, &mut current_nodes)
follow_many_swap ==
    /\ ~called
    /\ frame # <<>>
    /\ frame.at = "inner"
    /\ frame.current_nodes = <<>>
    /\ frame' = [frame EXCEPT !.at = "outer",
                              !.current_nodes = frame.next_nodes,
                              !.next_nodes = frame.current_nodes]
    /\ UNCHANGED <<args, ret, called, pipeVars>>

FollowNext ==
    \/ follow_many_call
    \/ follow_many_return
    \/ follow_many_step
    \/ follow_many_move
    \/ follow_many_missing
    \/ follow_many_swap

SpecFollow == FollowInit /\ [][FollowNext]_vars

\* the thread that runs follow_many always takes its next step
FairSpecFollow == FollowInit /\ [][FollowNext]_vars /\ WF_vars(FollowNext)

----------------------------------------------------------------------------
(* Claims about follow_many, checked under FairSpecFollow *)

\* the nodes of the map whose name ends with A
StartNodes(a) == {k \in DOMAIN a.nodes : k[Len(k)] = "A"}

\* the k-th instruction of the path repeated without end
Instruction(a, k) == a.path[((k - 1) % Len(a.path)) + 1]

\* where a walker that stands on p after k instructions stands after each of
\* the instructions k + 1 .. MaxSteps; a walker on a name that is no node of
\* the map stays there
RECURSIVE Trajectory(_, _, _)
Trajectory(a, p, k) ==
    IF k = MaxSteps THEN <<>>
    ELSE LET q == IF p \notin DOMAIN a.nodes THEN p
                  ELSE IF Instruction(a, k + 1) = "Left" THEN a.nodes[p][1]
                  ELSE a.nodes[p][2]
         IN  <<q>> \o Trajectory(a, q, k + 1)

\* for every start node, where its walker stands after 1 .. MaxSteps
\* instructions
Walks(a) == [s \in StartNodes(a) |-> Trajectory(a, s, 0)]

\* in the walk t, the walker stands on a node that ends with Z after k
\* instructions
OnTarget(t, k) == t[k][Len(t[k])] = "Z"

\* the number of instructions after which the walker of the walk t first
\* stands on a target, 0 when it never does
WalkLength(t) ==
    IF \E k \in 1..MaxSteps : OnTarget(t, k)
    THEN CHOOSE k \in 1..MaxSteps :
            OnTarget(t, k) /\ \A j \in 1..(k - 1) : ~OnTarget(t, j)
    ELSE 0

\* the walker of every start node lands on a target
EveryStartLands(a) == \A s \in StartNodes(a) : WalkLength(Walks(a)[s]) > 0

\* the number of entries of seq that are x
Count(seq, x) == Cardinality({i \in 1..Len(seq) : seq[i] = x})

\* the start nodes whose walker, by the walks w, has not landed within k
\* instructions and stands on n after them
WalkersOn(w, n, k) ==
    {s \in DOMAIN w :
        /\ IF k = 0 THEN s = n ELSE w[s][k] = n
        /\ \A j \in 1..k : ~OnTarget(w[s], j)}

\* the start nodes whose walker, by the walks w, first lands after c
\* instructions
LandingAfter(w, c) == {s \in DOMAIN w : WalkLength(w[s]) = c}

Running == frame # <<>> /\ ~called

\* C23: on a map and path on which the walker of every start node lands on
\* a target, follow_many ends and returns one count per start node, in
\* non-decreasing order, each walker's count being the number of
\* instructions of the repeated path after which it first stands on a
\* target; while it runs, every walker is in current_nodes, in next_nodes or
\* counted in cycles, the walkers in next_nodes have taken steps
\* instructions and those in current_nodes one less inside the inner loop
\* (as many between two passes), all by the same instruction, the steps-th
\* of the repeated path, and a walker that has landed is in neither list.
C23_FollowManyCounts ==
    /\ [](called =>
            \A w \in {Walks(args)} :
                (\A s \in DOMAIN w : WalkLength(w[s]) > 0) =>
                    /\ ret # None
                    /\ Len(ret[1]) = Cardinality(DOMAIN w)
                    /\ \A i \in 1..(Len(ret[1]) - 1) : ret[1][i] <= ret[1][i + 1]
                    /\ \A c \in 1..MaxSteps :
                          Count(ret[1], c) = Cardinality(LandingAfter(w, c)))
    /\ [](Running =>
            \A w \in {Walks(args)} :
                /\ Len(frame.current_nodes) + Len(frame.next_nodes)
                      + Len(frame.cycles) = Cardinality(DOMAIN w)
                /\ \A i \in 1..Len(frame.cycles) :
                      /\ frame.cycles[i] <= frame.steps
                      /\ Count(frame.cycles, frame.cycles[i])
                            <= Cardinality(LandingAfter(w, frame.cycles[i]))
                /\ frame.at = "outer" =>
                      /\ frame.next_nodes = <<>>
                      /\ \A i \in 1..Len(frame.current_nodes) :
                            Count(frame.current_nodes, frame.current_nodes[i])
                            = Cardinality(WalkersOn(w, frame.current_nodes[i],
                                                    frame.steps))
                /\ frame.at = "inner" =>
                      /\ frame.step = Instruction(args, frame.steps)
                      /\ \A i \in 1..Len(frame.current_nodes) :
                            Count(frame.current_nodes, frame.current_nodes[i])
                            <= Cardinality(WalkersOn(w, frame.current_nodes[i],
                                                     frame.steps - 1))
                      /\ \A i \in 1..Len(frame.next_nodes) :
                            Count(frame.next_nodes, frame.next_nodes[i])
                            <= Cardinality(WalkersOn(w, frame.next_nodes[i],
                                                     frame.steps)))
    /\ (Running /\ EveryStartLands(args)) ~> (called /\ ret # None)

\* follow_many has returned two different counts, the larger one greater
\* than the number of instructions of the path, on a path of two different
\* instructions
C23_Witness ==
    /\ called
    /\ EveryStartLands(args)
    /\ ret # None
    /\ Len(ret[1]) = 2
    /\ ret[1][1] < ret[1][2]
    /\ ret[1][2] > Len(args.path)
    /\ Len(args.path) = 2
    /\ args.path[1] # args.path[2]

----------------------------------------------------------------------------
(* src/src/day_09.rs: History::new, History::derived and
   History::extrapolated on i32.  The model gives i32 I32Bits bits; args
   holds the data, the kind of extrapolation, and whether the build checks
   arithmetic overflow (it panics there) or not (it wraps). *)

I32Bits == 8
I32Min == 0 - 2^(I32Bits - 1)
I32Max == 2^(I32Bits - 1) - 1

\* the i32 that a build without overflow checks computes for x
wrap_i32(x) == ((x - I32Min) % 2^I32Bits) + I32Min

\* a history holds at most MaxHistory numbers
MaxHistory == 4

\* Itertools::all_equal
all_equal(row) == \A i \in 1..Len(row), j \in 1..Len(row) : row[i] = row[j]

\* for (first, second) in current.iter().tuple_windows() { second - first }
differences(current) ==
    [i \in 1..(Len(current) - 1) |-> current[i + 1] - current[i]]

\* vec![0; n]
zeros(n) == [i \in 1..n |-> 0]

\* the rows of a History: once(&mut self.data).chain(&mut self.derived)
rows_of(h) == <<h.data>> \o h.derived

\* the History whose rows are rows
history_of(rows) == [data |-> Head(rows), derived |-> Tail(rows)]

\* the histories of the model: numbers near 0 and at both ends of i32
HistoryInputs ==
    LET HistoryNumbers == {I32Min, I32Max} \cup (0 - 2)..2
    IN  [data : SeqsUpTo(HistoryNumbers, MaxHistory),
         kind : {"Forwards", "Backwards"},
         overflow_checks : BOOLEAN]

HistoryInit ==
    /\ args \in HistoryInputs
    /\ ret = None
    /\ called = FALSE
    /\ frame = <<>>
    /\ PipeIdle

\* History::new: History { data, derived: vec![] }.derived() is entered
history_new ==
    /\ ~called
    /\ frame = <<>>
    /\ frame' = [at |-> "derived", rows |-> <<args.data>>, row |-> 0, seed |-> 0]
    /\ UNCHANGED <<args, ret, called, pipeVars>>

\* derived: one iteration of the while loop
derived_push ==
    /\ ~called
    /\ frame # <<>>
    /\ frame.at = "derived"
    /\ LET current == frame.rows[Len(frame.rows)]
           next == differences(current)
       IN  /\ ~all_equal(current)
           /\ IF args.overflow_checks
                 /\ \E i \in 1..Len(next) : next[i] # wrap_i32(next[i])
              THEN /\ ret' = Panic("attempt to subtract with overflow")
                   /\ called' = TRUE
                   /\ UNCHANGED frame
              ELSE /\ frame' = [frame EXCEPT !.rows =
                                  Append(@, [i \in 1..Len(next) |-> wrap_i32(next[i])])]
                   /\ UNCHANGED <<ret, called>>
    /\ UNCHANGED <<args, pipeVars>>

\* derived: the loop is over: self.derived.push(vec![0; current.len() - 1]);
\* History::new returns
derived_zeros ==
    /\ ~called
    /\ frame # <<>>
    /\ frame.at = "derived"
    /\ LET current == frame.rows[Len(frame.rows)]
       IN  /\ all_equal(current)
           /\ IF Len(current) = 0
              THEN /\ ret' = Panic("attempt to subtract with overflow")
                   /\ called' = TRUE
                   /\ UNCHANGED frame
              ELSE /\ frame' = [frame EXCEPT !.at = "built",
                                             !.rows = Append(@, zeros(Len(current) - 1))]
                   /\ UNCHANGED <<ret, called>>
    /\ UNCHANGED <<args, pipeVars>>

\* extrapolated: rows.next().expect("Empty history").push(0); let mut seed = 0
extrapolated_call ==
    /\ ~called
    /\ frame # <<>>
    /\ frame.at = "built"
    /\ frame' = [frame EXCEPT !.at = "extrapolating",
                              !.rows[Len(frame.rows)] = Append(@, 0),
                              !.row = Len(frame.rows) - 1,
                              !.seed = 0]
    /\ UNCHANGED <<args, ret, called, pipeVars>>

\* extrapolated: the closure of for_each on the next row upwards
extrapolated_row ==
    /\ ~called
    /\ frame # <<>>
    /\ frame.at = "extrapolating"
    /\ frame.row >= 1
    /\ LET row == frame.rows[frame.row]
           seed == IF args.kind = "Forwards"
                   THEN frame.seed + row[Len(row)]
                   ELSE row[1] - frame.seed
       IN  IF args.overflow_checks /\ seed # wrap_i32(seed)
           THEN /\ ret' = Panic("attempt to add or subtract with overflow")
                /\ called' = TRUE
                /\ UNCHANGED frame
           ELSE /\ frame' = [frame EXCEPT
                               !.seed = wrap_i32(seed),
                               !.rows[frame.row] =
                                   IF args.kind = "Forwards"
                                   THEN Append(@, wrap_i32(seed))
                                   ELSE <<wrap_i32(seed)>> \o @,
                               !.row = @ - 1]
                /\ UNCHANGED <<ret, called>>
    /\ UNCHANGED <<args, pipeVars>>

\* extrapolated returns self
extrapolated_return ==
    /\ ~called
    /\ frame # <<>>
    /\ frame.at = "extrapolating"
    /\ frame.row = 0
    /\ ret' = Return(history_of(frame.rows))
    /\ called' = TRUE
    /\ UNCHANGED <<args, frame, pipeVars>>

HistoryNext ==
    \/ history_new
    \/ derived_push
    \/ derived_zeros
    \/ extrapolated_call
    \/ extrapolated_row
    \/ extrapolated_return

SpecHistory == HistoryInit /\ [][HistoryNext]_vars

----------------------------------------------------------------------------
(* Claims about History, checked under SpecHistory *)

\* every row but the first is the pairwise difference of the row above it,
\* and the last row is all zeros
DifferenceRows(rows) ==
    /\ Len(rows) >= 2
    /\ \A r \in 2..Len(rows) :
          /\ Len(rows[r]) = Len(rows[r - 1]) - 1
          /\ \A i \in 1..Len(rows[r]) : rows[r][i] = rows[r - 1][i + 1] - rows[r - 1][i]
    /\ \A i \in 1..Len(rows[Len(rows)]) : rows[Len(rows)][i] = 0

\* the History that History::new has built, before it is extrapolated
Built == frame # <<>> /\ frame.at = "built"

\* the rows of the History that extrapolated has returned
ReturnedRows == rows_of(ret[2])

\* C24: for every non-empty data, the call of History::new ends with a
\* History whose rows are difference rows, and extrapolated, in either
\* direction, ends with a History of as many rows, each one element longer,
\* that are difference rows again; for data [n], derived is [[]] before and
\* the result is data [n, n], derived [[0]].
C24_HistoryDifferenceRows ==
    /\ (called /\ args.data # <<>>) => IsReturn(ret)
    /\ (Built /\ args.data # <<>>) =>
          /\ frame.rows[1] = args.data
          /\ DifferenceRows(frame.rows)
          /\ Len(args.data) = 1 => frame.rows = <<args.data, <<>> >>
    /\ (called /\ IsReturn(ret)) =>
          /\ DifferenceRows(ReturnedRows)
          /\ Len(ReturnedRows) = Len(frame.rows)
          /\ Len(ReturnedRows[1]) = Len(args.data) + 1
          /\ Len(args.data) = 1 =>
                ReturnedRows = << <<args.data[1], args.data[1]>>, <<0>> >>

\* the numbers of the data are far enough from both ends of i32 for no
\* difference and no extrapolated value to leave i32
FarFromEnds(data) ==
    \A i \in 1..Len(data) :
        data[i] * 2^(MaxHistory + 1) \in I32Min..I32Max

\* on data far from the ends of i32 the claim holds, and the extrapolated
\* data is the old data with one number more at its end (Forwards) or at its
\* front (Backwards)
History_ExactFarFromEnds ==
    (args.data # <<>> /\ FarFromEnds(args.data)) =>
        /\ C24_HistoryDifferenceRows
        /\ (called /\ args.kind = "Forwards") =>
              SubSeq(ReturnedRows[1], 1, Len(args.data)) = args.data
        /\ (called /\ args.kind = "Backwards") =>
              Tail(ReturnedRows[1]) = args.data

----------------------------------------------------------------------------
(* src/src/day_01.rs: parse_digit_take_1, parse_digit_with_prefix and
   parse_digits_alphanum.  An input is the sequence of its characters; a
   parser gives None when it backtracks and Some(<<output, rest>>) when it
   succeeds. *)

\* a line holds at most MaxLine characters
MaxLine == 5

\* the characters alpha0 takes
AsciiLetters ==
    {"a", "b", "c", "d", "e", "f", "g", "h", "i", "j", "k", "l", "m",
     "n", "o", "p", "q", "r", "s", "t", "u", "v", "w", "x", "y", "z",
     "A", "B", "C", "D", "E", "F", "G", "H", "I", "J", "K", "L", "M",
     "N", "O", "P", "Q", "R", "S", "T", "U", "V", "W", "X", "Y", "Z"}

\* the characters digit1 takes, in the order of their values 0 .. 9
AsciiDigits == <<"0", "1", "2", "3", "4", "5", "6", "7", "8", "9">>

\* the literals of alt, in its order: the i-th has the value i
spelled ==
    << <<"o", "n", "e">>, <<"t", "w", "o">>, <<"t", "h", "r", "e", "e">>,
       <<"f", "o", "u", "r">>, <<"f", "i", "v", "e">>, <<"s", "i", "x">>,
       <<"s", "e", "v", "e", "n">>, <<"e", "i", "g", "h", "t">>,
       <<"n", "i", "n", "e">> >>

\* a literal parser succeeds on a text that starts with the literal
starts_with(text, literal) ==
    /\ Len(text) >= Len(literal)
    /\ SubSeq(text, 1, Len(literal)) = literal

\* peek(alt((.. literals .., take(1usize).and_then(digit1).parse_to::<u32>()))):
\* the value of the first alternative that succeeds; nothing is consumed
peek_alt(text) ==
    IF \E i \in 1..Len(spelled) : starts_with(text, spelled[i])
    THEN Some(CHOOSE i \in 1..Len(spelled) :
                /\ starts_with(text, spelled[i])
                /\ \A j \in 1..(i - 1) : ~starts_with(text, spelled[j]))
    ELSE IF text # <<>> /\ \E d \in 1..Len(AsciiDigits) : AsciiDigits[d] = text[1]
    THEN Some((CHOOSE d \in 1..Len(AsciiDigits) : AsciiDigits[d] = text[1]) - 1)
    ELSE None

\* the number of characters parse_digit_take_1 consumes after its peek
taken_word(text) ==
    IF \E i \in 1..Len(spelled) : starts_with(text, spelled[i])
    THEN Len(spelled[CHOOSE i \in 1..Len(spelled) : starts_with(text, spelled[i])])
    ELSE 1
taken(text) == 1

\* parse_digit_take_1: the peeked digit, then take(1usize)
parse_digit_take_1(text) ==
    IF peek_alt(text) = None THEN None
    ELSE Some(<<peek_alt(text)[1],
                SubSeq(text, taken(text) + 1, Len(text))>>)

\* parse_digit_with_prefix: repeat_till0(any, parse_digit_take_1) mapped to
\* the digit
RECURSIVE parse_digit_with_prefix(_)
parse_digit_with_prefix(text) ==
    IF parse_digit_take_1(text) # None THEN parse_digit_take_1(text)
    ELSE IF text = <<>> THEN None
    ELSE parse_digit_with_prefix(Tail(text))

\* repeat after its first item: items are taken until the parser backtracks,
\* and the input is reset to where the failed attempt began
RECURSIVE repeat_more(_)
repeat_more(text) ==
    IF parse_digit_with_prefix(text) = None THEN <<<<>>, text>>
    ELSE LET item == parse_digit_with_prefix(text)[1]
             more == repeat_more(item[2])
         IN  <<<<item[1]>> \o more[1], more[2]>>

\* repeat(1.., parse_digit_with_prefix)
repeat1(text) ==
    IF parse_digit_with_prefix(text) = None THEN None
    ELSE Some(repeat_more(text))

\* alpha0: what is left after the leading letters
RECURSIVE alpha0(_)
alpha0(text) ==
    IF text # <<>> /\ text[1] \in AsciiLetters THEN alpha0(Tail(text))
    ELSE text

\* parse_digits_alphanum: terminated(repeat(1.., ..), alpha0)
parse_digits_alphanum(text) ==
    IF repeat1(text) = None THEN None
    ELSE Some(<<repeat1(text)[1][1], alpha0(repeat1(text)[1][2])>>)

\* Parser::parse: the parser, then the end of the input
parse(text) ==
    IF parse_digits_alphanum(text) = None THEN Err("backtrack")
    ELSE IF parse_digits_alphanum(text)[1][2] # <<>> THEN Err("eof expected")
    ELSE Ok(parse_digits_alphanum(text)[1][1])

\* the lines of the tests of mod phase_2
TestLines ==
    {<<"6">>, <<"t", "w", "o">>, <<"t", "w", "o", "1">>,
     <<"t", "w", "o", "s", "i", "x">>, <<"3", "t", "w", "o", "n", "e">>,
     <<"s", "i", "x", "t", "w", "o", "n", "e">>,
     <<"s", "i", "x", "s", "i", "x", "s", "i", "x">>,
     <<"s", "i", "x", "2", "f", "o", "o">>}

\* every line of at most MaxLine characters among these, and the test lines
LineInputs ==
    SeqsUpTo({"o", "n", "e", "t", "w", "1", "-"}, MaxLine) \cup TestLines

LineInit ==
    /\ args \in LineInputs
    /\ ret = None
    /\ called = FALSE
    /\ frame = <<>>
    /\ PipeIdle

\* parse_digits_alphanum.parse(line)
parse_line ==
    /\ ~called
    /\ ret' = parse(args)
    /\ called' = TRUE
    /\ UNCHANGED <<args, frame, pipeVars>>

LineNext == parse_line

SpecLine == LineInit /\ [][LineNext]_vars

----------------------------------------------------------------------------
(* Claims about parse_digits_alphanum, checked under SpecLine *)

\* the digit that begins at position p of the line: the value of a decimal
\* digit character there, or of the spelled word one .. nine that begins
\* there; 10 when none does
DigitAt(line, p) ==
    IF \E d \in 0..9 : line[p] = AsciiDigits[d + 1]
    THEN CHOOSE d \in 0..9 : line[p] = AsciiDigits[d + 1]
    ELSE IF \E d \in 1..9 :
               /\ p + Len(spelled[d]) - 1 <= Len(line)
               /\ \A i \in 1..Len(spelled[d]) : line[p + i - 1] = spelled[d][i]
    THEN CHOOSE d \in 1..9 :
               /\ p + Len(spelled[d]) - 1 <= Len(line)
               /\ \A i \in 1..Len(spelled[d]) : line[p + i - 1] = spelled[d][i]
    ELSE 10

\* the positions of the line at which a digit begins
DigitPositions(line) == {p \in 1..Len(line) : DigitAt(line, p) # 10}

\* the digits that begin in the line, from left to right
DigitsOf(line) ==
    [j \in 1..Cardinality(DigitPositions(line)) |->
        DigitAt(line, CHOOSE p \in DigitPositions(line) :
                        Cardinality({q \in DigitPositions(line) : q <= p}) = j)]

\* every character after the last position at which a digit begins is a
\* letter
LettersAfterLastDigit(line) ==
    \A p \in 1..Len(line) :
        (\A q \in DigitPositions(line) : q < p) => line[p] \in AsciiLetters

\* C25 as stated: for every line, parse_digits_alphanum returns the digits
\* that begin in the line, from left to right.
C25_DigitPerPosition ==
    called => ret = Ok(DigitsOf(args))

\* C25 as amended: on a line in which at least one digit begins and every
\* character after the last such position is a letter,
\* parse_digits_alphanum returns the digits that begin in the line, from
\* left to right, one per position, overlapping words and repeated digits
\* included ("twone" gives 2, 1; "sixtwone" 6, 2, 1; "six2foo" 6, 2); on
\* any other line it returns an error.
C25_DigitPerPositionOrError ==
    called =>
        /\ IF DigitPositions(args) # {} /\ LettersAfterLastDigit(args)
           THEN ret = Ok(DigitsOf(args))
           ELSE IsErr(ret)
        /\ args = <<"t", "w", "o", "n", "e">> => ret = Ok(<<2, 1>>)
        /\ args = <<"s", "i", "x", "t", "w", "o", "n", "e">> => ret = Ok(<<6, 2, 1>>)
        /\ args = <<"s", "i", "x", "2", "f", "o", "o">> => ret = Ok(<<6, 2>>)

\* two words that share a letter have been read, after a digit character
C25_Witness ==
    /\ called
    /\ IsOk(ret)
    /\ Len(ret[2]) = 3
    /\ ret[2][2] # ret[2][3]
    /\ args[1] \in SeqSet(AsciiDigits)
    /\ \E p \in DigitPositions(args), q \in DigitPositions(args) :
          /\ p < q
          /\ q < p + 3
          /\ args[p] \in AsciiLetters
          /\ args[q] \in AsciiLetters

----------------------------------------------------------------------------
(* Claims that compare map_ranges with map_ids, checked under Spec *)

\* the inner loop of map_ids on one id: the id it pushes to mapped_ids when
\* it starts on mapping_key with current_id (n bounds the iterations)
RECURSIVE map_id(_, _, _, _)
map_id(a, key, id, n) ==
    IF n = 0 \/ key \notin DOMAIN a.maps THEN id
    ELSE LET mapping == a.maps[key]
             found_id == find_id(mapping.ranges, id)
             new_id == IF found_id # None THEN found_id[1] ELSE id
         IN  IF next_key(mapping) = a.last_field THEN new_id
             ELSE map_id(a, next_key(mapping), new_id, n - 1)

\* the integers of the seed ranges of the pipeline
SeedMembers(a) == ElemsOf(seed_ranges(a.start_ids))

\* C26: when map_ranges returns on a pipeline whose chain reaches
\* last_domain, every integer is covered by as many returned fragments as
\* there are pairs of a seed range and a member of it that map_ids takes to
\* that integer, and, when the seed ranges have a member, the least start
\* of the returned fragments is the least value map_ids gives a member.
C26_RangeImageOfScalar ==
    (ReturnedOk(2) /\ ChainReaches(alm)) =>
        \A scalar \in {[s \in Vals |->
                          map_id(alm, alm.first_field, s, Cardinality(DOMAIN alm.maps))]} :
            /\ \A y \in Vals :
                  Hits(result[2][2], {y})
                  = Hits(seed_ranges(alm.start_ids), {s \in Vals : scalar[s] = y})
            /\ SeedMembers(alm) # {} =>
                  /\ min(starts(result[2][2])) # None
                  /\ min(starts(result[2][2]))[1] \in {scalar[s] : s \in SeedMembers(alm)}
                  /\ \A s \in SeedMembers(alm) :
                        min(starts(result[2][2]))[1] <= scalar[s]

\* no seed range and no rule of the pipeline is empty
NothingEmpty(a) ==
    /\ \A i \in 1..Len(seed_ranges(a.start_ids)) :
          Length(seed_ranges(a.start_ids)[i]) > 0
    /\ \A k \in DOMAIN a.maps : \A i \in 1..Len(a.maps[k].ranges) :
          Length(a.maps[k].ranges[i].range) > 0

\* on a pipeline without empty seed range and without empty rule, the
\* fragments map_ranges returns are not empty and C26 holds
RangeImage_ExactWhenNothingEmpty ==
    (ReturnedOk(2) /\ ChainReaches(alm) /\ NothingEmpty(alm)) =>
        /\ \A i \in 1..Len(result[2][2]) : Length(result[2][2][i]) > 0
        /\ C26_RangeImageOfScalar


----------------------------------------------------------------------------
(* The number of fragments one stage produces, checked under Spec *)

\* no stage points back at the first one: while mapping_key is first_field
\* the fragments being translated are those of the seed ranges
FirstStageOnce(a) == \A k \in DOMAIN a.maps : next_key(a.maps[k]) # a.first_field

InFirstStage ==
    /\ pc = "map_ranges"
    /\ FirstStageOnce(alm)
    /\ mapping_key = alm.first_field
    /\ mapping_key \in DOMAIN alm.maps

\* the rule bounds lying strictly inside the fragment q, each rule counted
\* for its start and for its end
Cuts(ranges, q) ==
    Cardinality({i \in 1..Len(ranges) :
                    q.start < ranges[i].range.start /\ ranges[i].range.start < q.end})
    + Cardinality({i \in 1..Len(ranges) :
                    q.start < ranges[i].range.end /\ ranges[i].range.end < q.end})

\* the fragments a stage can still put in done: one for each fragment of
\* done, and for each pending fragment one more than the cuts inside it
RECURSIVE StillToCome(_, _)
StillToCome(ranges, pending) ==
    IF pending = <<>> THEN 0
    ELSE 1 + Cuts(ranges, Head(pending)) + StillToCome(ranges, Tail(pending))

\* C27: within one stage holding n rules a single input fragment produces at
\* most 2n+1 fragments in done, so that done and pending together never hold
\* more than 2n+1 fragments per input fragment of the stage: in the first
\* stage, whose input fragments are the seed ranges, they never hold more than
\* (2n+1) times the number of seed ranges (2n+1 for a single seed range), and
\* in every stage a step of the loop never raises the number of fragments
\* already in done plus, for each pending fragment, one more than the rule
\* bounds strictly inside it (at most 2n+1 for each fragment a stage starts
\* with).
C27_FragmentsPerStageBounded ==
    /\ [](InFirstStage =>
            Len(mapped_ranges) + Len(ranges_to_map)
                <= (2 * Len(StageRules) + 1) * Len(seed_ranges(alm.start_ids)))
    /\ [][(pc = "map_ranges" /\ mapping_key \in DOMAIN alm.maps
                /\ ranges_to_map # <<>>)
            => /\ StillToCome(StageRules, ranges_to_map) <=
                    (2 * Len(StageRules) + 1) * Len(ranges_to_map)
               /\ Len(mapped_ranges') + StillToCome(StageRules, ranges_to_map')
                    <= Len(mapped_ranges) + StillToCome(StageRules, ranges_to_map)]_vars

\* a single seed range has been cut into 2n+1 fragments by the n = 2 rules of
\* the first stage
C27_Witness ==
    /\ InFirstStage
    /\ Len(seed_ranges(alm.start_ids)) = 1
    /\ Len(StageRules) = 2
    /\ ranges_to_map = <<>>
    /\ Len(mapped_ranges) = 5


----------------------------------------------------------------------------
(* src/src/day_05.rs on machine integers: MappingRange::new, both Shr impls
   and the seed range of map_ranges, with i64 given I64Bits bits.  args holds
   the numbers of one rule line (dest, src, len), an id, one seed pair
   (start, length), and whether the build checks arithmetic overflow (it
   panics there) or not (it wraps). *)

I64Bits == 4
I64Min == 0 - 2^(I64Bits - 1)
I64Max == 2^(I64Bits - 1) - 1

\* the i64 that a build without overflow checks computes for x
wrap_i64(x) == ((x - I64Min) % 2^I64Bits) + I64Min

\* an arithmetic operation on i64 whose exact result is x
i64(x, overflow_checks) ==
    IF x \in I64Min..I64Max THEN Return(x)
    ELSE IF overflow_checks THEN Panic("arithmetic overflow")
    ELSE Return(wrap_i64(x))

\* MappingRange::new: range: src..(src + len), offset: dest - src
MappingRange_new_i64(dest, src, len, overflow_checks) ==
    LET end == i64(src + len, overflow_checks)
        offset == i64(dest - src, overflow_checks)
    IN  IF ~IsReturn(end) THEN end
        ELSE IF ~IsReturn(offset) THEN offset
        ELSE Return([range |-> Range(src, end[2]), offset |-> offset[2]])

\* impl Shr<&MappingRange> for i64
Shr_i64_i64(self, rhs, overflow_checks) ==
    IF contains(rhs.range, self)
    THEN LET sum == i64(self + rhs.offset, overflow_checks)
         IN  IF IsReturn(sum) THEN Return(Some(sum[2])) ELSE sum
    ELSE Return(None)

\* (a + offset)..(b + offset) with the ranges left unmapped
shifted(a, b, offset, split, overflow_checks) ==
    LET start == i64(a + offset, overflow_checks)
        end == i64(b + offset, overflow_checks)
    IN  IF ~IsReturn(start) THEN start
        ELSE IF ~IsReturn(end) THEN end
        ELSE Return(Some(<<Range(start[2], end[2]), split>>))

\* impl Shr<&MappingRange> for Range<i64>: the exclusivity test with its
\* short-circuit evaluation, then the match
Shr_range_i64(self, rhs, overflow_checks) ==
    LET rhs_min == rhs.range.start
        rhs_max == rhs.range.end
        self_min == self.start
        self_max == self.end
        self_max_1 == i64(self_max - 1, overflow_checks)
        max_1 == i64(rhs_max - 1, overflow_checks)
        o == <<cmp(self_min, rhs_min), cmp(self_max, rhs_max)>>
    IN  IF self_min < rhs_min /\ ~IsReturn(self_max_1) THEN self_max_1
        ELSE IF self_min < rhs_min /\ self_max_1[2] < rhs_min THEN Return(None)
        ELSE IF ~IsReturn(max_1) THEN max_1
        ELSE IF self_min > max_1[2] /\ self_max > rhs_max THEN Return(None)
        ELSE IF o \in {<<"Less", "Less">>, <<"Less", "Equal">>}
            THEN shifted(rhs_min, self_max, rhs.offset,
                         <<Range(self_min, rhs_min)>>, overflow_checks)
        ELSE IF o \in {<<"Equal", "Greater">>, <<"Greater", "Greater">>}
            THEN shifted(self_min, rhs_max, rhs.offset,
                         <<Range(rhs_max, self_max)>>, overflow_checks)
        ELSE IF o = <<"Less", "Greater">>
            THEN shifted(rhs_min, rhs_max, rhs.offset,
                         <<Range(self_min, rhs_min), Range(rhs_max, self_max)>>,
                         overflow_checks)
        ELSE shifted(self_min, self_max, rhs.offset, <<>>, overflow_checks)

\* the numbers of the model: near 0 and at both ends of i64
WidthInputs ==
    LET WidthNumbers == {I64Min, I64Max} \cup (0 - 1)..2
    IN  [dest : WidthNumbers, src : WidthNumbers, len : WidthNumbers,
         id : WidthNumbers, start : WidthNumbers, length : WidthNumbers,
         overflow_checks : BOOLEAN]

WidthInit ==
    /\ args \in WidthInputs
    /\ ret = None
    /\ called = FALSE
    /\ frame = <<>>
    /\ PipeIdle

\* a panic ends the run; otherwise the run goes on at the next operation
proceed(outcome, field, at) ==
    IF IsReturn(outcome)
    THEN /\ frame' = [f \in {"at", field} \cup DOMAIN frame |->
                        IF f = "at" THEN at
                        ELSE IF f = field THEN outcome[2] ELSE frame[f]]
         /\ UNCHANGED <<ret, called>>
    ELSE /\ ret' = outcome
         /\ called' = TRUE
         /\ UNCHANGED frame

\* MappingRange::new(dest, src, len)
mapping_range_new ==
    /\ ~called
    /\ frame = <<>>
    /\ proceed(MappingRange_new_i64(args.dest, args.src, args.len,
                                    args.overflow_checks),
               "rule", "shr_i64")
    /\ UNCHANGED <<args, pipeVars>>

\* id >> &rule
shr_i64 ==
    /\ ~called
    /\ frame # <<>>
    /\ frame.at = "shr_i64"
    /\ proceed(Shr_i64_i64(args.id, frame.rule, args.overflow_checks),
               "found_id", "seed_range")
    /\ UNCHANGED <<args, pipeVars>>

\* map_ranges: *id..(id + len) for the seed pair
seed_range ==
    /\ ~called
    /\ frame # <<>>
    /\ frame.at = "seed_range"
    /\ LET end == i64(args.start + args.length, args.overflow_checks)
       IN  proceed(IF IsReturn(end) THEN Return(Range(args.start, end[2])) ELSE end,
                   "current_range", "shr_range")
    /\ UNCHANGED <<args, pipeVars>>

\* current_range >> &rule, after which the run returns what it has computed
shr_range_i64 ==
    /\ ~called
    /\ frame # <<>>
    /\ frame.at = "shr_range"
    /\ LET found == Shr_range_i64(frame.current_range, frame.rule,
                                  args.overflow_checks)
       IN  /\ ret' = IF IsReturn(found)
                     THEN Return([rule |-> frame.rule,
                                  found_id |-> frame.found_id,
                                  found_ranges |-> found[2]])
                     ELSE found
           /\ called' = TRUE
           /\ UNCHANGED frame
    /\ UNCHANGED <<args, pipeVars>>

WidthNext ==
    \/ mapping_range_new
    \/ shr_i64
    \/ seed_range
    \/ shr_range_i64

SpecWidth == WidthInit /\ [][WidthNext]_vars

----------------------------------------------------------------------------
(* Claims about overflow, checked under SpecWidth *)

Fits(x) == x \in I64Min..I64Max

\* the endpoints of the rule and of the seed range fit in i64
EndpointsFit(a) ==
    /\ Fits(a.src) /\ Fits(a.src + a.len)
    /\ Fits(a.dest) /\ Fits(a.dest + a.len)
    /\ Fits(a.start) /\ Fits(a.start + a.length)

\* the run is about to do the operation at
About(at) == ~called /\ frame # <<>> /\ frame.at = at

\* no operation of the run has overflowed: the run has not panicked, what it
\* has computed so far is what exact arithmetic gives, and the bound - 1 of
\* the comparisons it is about to make fit
NoOverflow ==
    /\ called => IsReturn(ret)
    /\ frame # <<>> => frame.rule = MappingRange_new(args.dest, args.src, args.len)
    /\ (frame # <<>> /\ "found_id" \in DOMAIN frame) =>
            frame.found_id = Shr_i64(args.id, frame.rule)
    /\ (frame # <<>> /\ "current_range" \in DOMAIN frame) =>
            frame.current_range = Range(args.start, args.start + args.length)
    /\ About("shr_range") =>
          LET self == frame.current_range
              rhs == frame.rule
          IN  /\ self.start < rhs.range.start => Fits(self.end - 1)
              /\ ~(self.start < rhs.range.start /\ self.end - 1 < rhs.range.start)
                    => Fits(rhs.range.end - 1)
    /\ called =>
            ret[2].found_ranges = Shr_range(frame.current_range, frame.rule)

\* C28: for a rule and a seed pair whose endpoints src, src + len, dest,
\* dest + len, start and start + length all fit in i64, no operation of rule
\* construction and translation overflows: src + len, dest - src, value +
\* offset, range bound + offset and bound - 1 all fit, so no call panics and
\* every result is the one exact arithmetic gives.
C28_NoOverflowWhenEndpointsFit == EndpointsFit(args) => NoOverflow

\* no number of the rule line and of the seed pair is negative
NonNegative(a) ==
    /\ a.dest >= 0 /\ a.src >= 0 /\ a.len >= 0
    /\ a.id >= 0 /\ a.start >= 0 /\ a.length >= 0

\* when moreover no number of the input is negative, nothing overflows
Width_NoOverflowWhenNonNegative ==
    (EndpointsFit(args) /\ NonNegative(args)) => NoOverflow

\* a run on non-negative numbers at the upper end of i64 has translated a
\* seed range through the rule
Width_Witness ==
    /\ called
    /\ EndpointsFit(args) /\ NonNegative(args)
    /\ args.dest = I64Max /\ args.start + args.length = I64Max
    /\ IsReturn(ret) /\ ret[2].found_ranges # None


----------------------------------------------------------------------------
(* The sequence of stages of map_ids and map_ranges, checked under Spec *)

\* the stage that follows the stage keyed by key, and whether the stage keyed
\* by key is the last one to be applied
Successor(a, key) == a.maps[key].to
EndsAt(a, key) == a.maps[key].to = a.last_field

\* the keys of the sequence that starts at key: key, then each successive to,
\* up to the first stage whose to is last_field; n bounds its distinct keys
RECURSIVE SequenceKeys(_, _, _)
SequenceKeys(a, key, n) ==
    IF n = 0 \/ key \notin DOMAIN a.maps \/ EndsAt(a, key)
    THEN {key}
    ELSE {key} \cup SequenceKeys(a, Successor(a, key), n - 1)

\* a stage is about to be applied by map_ids (to current_id) or looked up by
\* map_ranges
AtStage(f) == pc = f /\ mapping_key \in DOMAIN alm.maps

\* C29: map_ids, for each id, and map_ranges apply the same sequence of
\* stages.  Both start at the stage keyed by first_field and return nothing
\* before a stage has been applied (map_ids returns at once only when there is
\* no id at all); both apply the rules of the stage keyed by mapping_key and
\* then test its to: when it is last_field the sequence ends there (map_ids
\* pushes the id and goes back to first_field for the next id or returns,
\* map_ranges returns), also when first_field is last_field, and otherwise
\* both go on with the stage keyed by to.  No stage outside this sequence is
\* ever looked up.
C29_SameSequenceOfStages ==
    /\ [](pc \in {"map_ids", "map_ranges"} =>
            mapping_key \in SequenceKeys(alm, alm.first_field,
                                         Cardinality(DOMAIN alm.maps)))
    /\ [][/\ (pc = "call" /\ pc' \in {"map_ids", "map_ranges"}) =>
                /\ pc' = IF phase = 1 THEN "map_ids" ELSE "map_ranges"
                /\ mapping_key' = almanac'[2].first_field
                /\ result' = result
          /\ (pc = "call" /\ pc' = "returned") =>
                \/ IsErr(almanac')
                \/ phase = 1 /\ almanac'[2].start_ids = <<>>
          /\ AtStage("map_ids") =>
                /\ IF EndsAt(alm, mapping_key)
                   THEN /\ mapped_ids' =
                             Append(mapped_ids, StageValue(StageRules, current_id))
                        /\ \/ pc' = "returned" /\ result'[1] = Ok(mapped_ids')
                           \/ pc' = pc /\ mapping_key' = alm.first_field
                   ELSE /\ mapped_ids' = mapped_ids
                        /\ current_id' = StageValue(StageRules, current_id)
                        /\ pc' = pc
                        /\ mapping_key' = Successor(alm, mapping_key)
          /\ (AtStage("map_ranges") /\ ranges_to_map # <<>>) =>
                /\ pc' = pc
                /\ mapping_key' = mapping_key
          /\ (AtStage("map_ranges") /\ ranges_to_map = <<>>) =>
                /\ mapping_key' = Successor(alm, mapping_key)
                /\ IF EndsAt(alm, mapping_key)
                   THEN pc' = "returned" /\ result'[2] = Ok(mapped_ranges)
                   ELSE pc' = pc /\ result' = result
         ]_vars

\* first_field is last_field and a second stage is declared: both phases have
\* applied the first stage, once, and returned
C29_Witness ==
    /\ ReturnedOk(1) /\ ReturnedOk(2)
    /\ alm.first_field = alm.last_field
    /\ Cardinality(DOMAIN alm.maps) = 2
    /\ input.seeds = << <<0>>, <<0, 1>> >>
    /\ result[1][2] = <<1>>
    /\ result[2][2] = <<Range(1, 2)>>


----------------------------------------------------------------------------
(* Stages declared with the same from name, checked under Spec *)

\* the Almanac of the current call has been built
AlmanacBuilt == pc # "call" /\ IsOk(almanac)

\* the position of the last declared stage whose from is k
LastDeclared(maps, k) ==
    CHOOSE i \in 1..Len(maps) :
        /\ maps[i].from = k
        /\ \A j \in 1..Len(maps) : maps[j].from = k => j <= i

\* C30: the stage mapping of the Almanac holds exactly one stage per distinct
\* from name of the declared stages; where two declared stages share their
\* from name it holds the one declared later; first_field is the from of the
\* first declared stage and last_field the to of the last declared stage,
\* whether or not those stages are kept.
C30_LaterDuplicateWins ==
    AlmanacBuilt =>
        /\ DOMAIN alm.maps = {input.maps[i].from : i \in 1..Len(input.maps)}
        /\ \A k \in DOMAIN alm.maps :
              /\ alm.maps[k] = input.maps[LastDeclared(input.maps, k)]
              /\ alm.maps[k].from = k
        /\ Cardinality(DOMAIN alm.maps) <= Len(input.maps)
        /\ alm.first_field = input.maps[1].from
        /\ alm.last_field = input.maps[Len(input.maps)].to

\* two different stages are declared from the same name, the first with the
\* rule "1 0 1": the mapping holds only the second one, first_field is still
\* the from of the first, and map_ids has left the id 0 as it is
C30_Witness ==
    /\ AlmanacBuilt
    /\ Len(input.maps) = 2
    /\ input.maps[1].from = input.maps[2].from
    /\ input.maps[1].ranges = <<MappingRange_new(1, 0, 1)>>
    /\ input.maps[2].ranges = <<>>
    /\ input.maps[1].to # input.maps[2].to
    /\ Cardinality(DOMAIN alm.maps) = 1
    /\ alm.first_field = input.maps[1].from
    /\ ReturnedOk(1)
    /\ input.seeds[1] = <<0>>
    /\ result[1][2] = <<0>>

====
